---------------------------- MODULE Spec2Model ----------------------------
(***************************************************************************)
(* State-machine model of the process/thread management core:              *)
(*   - the user-level mutex           (src/src/libs/nanvix/mutex.c)        *)
(*   - the condition variable         (src/src/kernel/pm/cond.c)           *)
(*   - the thread table               (src/src/kernel/pm/thread.c)         *)
(*   - the kernel-call dispatch bridge (src/src/kernel/kcall/mod.c)        *)
(* Each subsystem has its own specification over the shared variable list; *)
(* the variables of the other subsystems stay at their initial values.     *)
(***************************************************************************)
EXTENDS Integers, Sequences, FiniteSets, TLC

(***************************************************************************)
(* Sizes.                                                                  *)
(***************************************************************************)
\* Capacity of the thread table, of the per-core join conditions and of a
\* mutex's waiter array (threads[THREAD_MAX], joincond[THREAD_MAX], tids[]).
THREAD_MAX == 3

\* Largest thread id the model hands out (caps next_tid).
MaxTid == 2

\* Slow-path kernel calls each caller issues at most.
MaxCalls == 1

\* Lock/unlock pairs each thread performs where their number is finite.
MaxRounds == 2

\* Largest process id the model hands out (caps next_pid).
MaxPid == 3

\* Largest index of the threads that run in processes (kernel thread: 0).
MaxPThread == 2

\* Free spinlock / null pointer / empty tids[] entry.
Nil == -1

VARIABLES
    \* ---- mutex.c : struct nanvix_mutex and its users
    sleepMode,      \* __NANVIX_MUTEX_SLEEP compiled in?
    locked,         \* m->locked
    mlock,          \* m->lock   (Nil, or the thread holding the spinlock)
    tids,           \* m->tids[0 .. THREAD_MAX-1]
    mpc,            \* per thread: position in nanvix_mutex_lock/unlock
    msleeping,      \* per thread: suspended in sleep()
    mleft,          \* per thread: lock/unlock pairs left to do (Nil: no limit)
    \* ---- cond.c / thread.c / process.c
    threads,        \* threads[i] = [state, tid]
    nthreads,       \* nthreads
    next_tid,       \* next_tid
    lock_tm,        \* lock_tm   (Nil, or the core holding it)
    joincond,       \* joincond[i] = [queue, lock]
    pnext,          \* processes[p].next
    psleep,         \* process p put to sleep by process_sleep()
    tpid,           \* thread_get_pid(thread running on core c)
    pc,             \* per core: position in the running function
    lcl,            \* per core: locals (tid, new_thread/t, ret, cond, return point)
    cstart,         \* per core: start request issued by core_start() not yet served
    assigned,       \* history: ids stored into a slot by thread_create
    exited,         \* history: ids whose thread_exit has broadcast and freed
    jinfo,          \* history, per core: what held when its thread_join was called
    \* ---- kcall/mod.c
    scoreboard,     \* scoreboard.f = [val, by]  ("by": writing invocation, history)
    kernel_semaphore,
    user_semaphore,
    kpc,            \* per caller: position in do_kcall
    kreq,           \* per caller: [nr, args] of the current invocation
    kret,           \* per caller: value returned by the last do_kcall
    kcalls,         \* per caller: number of slow-path invocations started
    hpc,            \* handle_syscall: position in its loop
    hups,           \* handle_syscall: completions signalled so far
    \* ---- pm/process.c
    processes,      \* processes[i] = [active, pid, vmem, image, tid]
    next_pid,       \* next_pid (static of process_create)
    vmade,          \* address spaces made so far: handles 1 .. vmade
    vfor,           \* per handle: the slot it was made for (Nil: not made)
    vdead,          \* per handle: number of vmem_destroy calls on it
    powner,         \* per thread: pid of the owning process (Nil: free)
    ppc,            \* per thread: position in process_create / process_exit
    plcl,           \* per thread: locals of process_create, and history
                    \*   (before: the active slots when the call was made,
                    \*    kept where calls are made one at a time)
    plast,          \* history: last pid a process_create returned (likewise)
    poob,           \* memory outside processes[] has been accessed
    ppanic,         \* a KASSERT failed: the kernel has stopped
    pseq,           \* calls into process.c are made one at a time
    \* ---- hal/exception : the table of exception handlers and its self-test
    ehandlers,      \* per exception number: the handler installed, or "NULL"
    epc,            \* position of the caller of the exception interface
    elcl,           \* the call in progress: operation, arguments, result, and
                    \*   history (before: the table when the call was made)
    etest,          \* index of the next step of test_exception
    epanic,         \* a KASSERT of the self-test failed
    \* ---- noc/mailbox.c
    mbuffers,           \* mbuffers[i] = [used, busy, dest, data]
    virtual_mailboxes,  \* virtual_mailboxes[v] = [used, busy, finished,
                        \*   remote]
    active_mailboxes,   \* active_mailboxes[fd] = [used, mode, async,
                        \*   refcount, nodenum, ports[p] = [used, mbufferid]]
    mbx,            \* history: the last call, and the number of messages
                    \*   written
    \* ---- hal/arch/k1b/setup.c
    cores,          \* cores[c] = [initialized, state, start]
    cpc,            \* per slave core: position in core_halt / core_start, and
                    \*   the start routine it is running
    wk              \* the master core: position in core_wakeup, its
                    \*   arguments, and history (wakeups issued, and how
                    \*   often each start routine was called)

mutexVars == <<sleepMode, locked, mlock, tids, mpc, msleeping, mleft>>
pmVars    == <<threads, nthreads, next_tid, lock_tm, joincond, pnext, psleep,
               tpid, pc, lcl, cstart, assigned, exited, jinfo>>
kcallVars == <<scoreboard, kernel_semaphore, user_semaphore, kpc, kreq, kret,
               kcalls, hpc, hups>>
procVars  == <<processes, next_pid, vmade, vfor, vdead, powner, ppc, plcl,
               plast, poob, ppanic, pseq>>
excVars   == <<ehandlers, epc, elcl, etest, epanic>>
mbxVars   == <<mbuffers, virtual_mailboxes, active_mailboxes, mbx>>
coreVars  == <<cores, cpc, wk>>
vars      == <<mutexVars, pmVars, kcallVars, procVars, excVars, mbxVars,
               coreVars>>

\* What a step of one subsystem leaves alone.
MutexFrame == UNCHANGED <<pmVars, kcallVars, procVars, excVars, mbxVars,
                         coreVars>>
PmFrame    == UNCHANGED <<mutexVars, kcallVars, procVars, excVars, mbxVars,
                         coreVars>>
KcallFrame == UNCHANGED <<mutexVars, pmVars, procVars, excVars, mbxVars,
                         coreVars>>
ProcFrame  == UNCHANGED <<mutexVars, pmVars, kcallVars, excVars, mbxVars,
                         coreVars>>
ExcFrame   == UNCHANGED <<mutexVars, pmVars, kcallVars, procVars, mbxVars,
                         coreVars>>
MbxFrame   == UNCHANGED <<mutexVars, pmVars, kcallVars, procVars, excVars,
                         coreVars>>
CoreFrame  == UNCHANGED <<mutexVars, pmVars, kcallVars, procVars, excVars,
                         mbxVars>>

(***************************************************************************)
(*                              MUTEX                                      *)
(***************************************************************************)
MutexThreads == 1..THREAD_MAX          \* kthread_self() of the lockers
TidIdx       == 0..(THREAD_MAX - 1)

\* nanvix_mutex_init(): locked = false, lock = SPINLOCK_UNLOCKED, tids[i] = -1.
nanvix_mutex_init ==
    /\ locked = FALSE
    /\ mlock = Nil
    /\ tids = [i \in TidIdx |-> Nil]

DequeueTidKeep(q, tid) == q
DequeueTidNoShift(q, tid) == [j \in TidIdx |-> IF q[j] = tid THEN Nil ELSE q[j]]
\* "Dequeue kernel thread": remove the first entry equal to tid, shift the
\* rest down and store -1 in the last entry.
DequeueTid(q, tid) ==
    IF \E i \in TidIdx : q[i] = tid
    THEN LET i == CHOOSE k \in TidIdx :
                     q[k] = tid /\ \A j \in TidIdx : j < k => q[j] # tid
         IN [j \in TidIdx |->
                IF j < i THEN q[j]
                ELSE IF j < THREAD_MAX - 1 THEN q[j + 1] ELSE Nil]
    ELSE q

EnqueueTidLast(q, tid) ==
    IF \E i \in TidIdx : q[i] = Nil
    THEN LET i == CHOOSE k \in TidIdx :
                     q[k] = Nil /\ \A j \in TidIdx : j > k => q[j] # Nil
         IN [q EXCEPT ![i] = tid]
    ELSE q
\* "Enqueue kernel thread": store tid in the first entry holding -1.
EnqueueTid(q, tid) ==
    IF \E i \in TidIdx : q[i] = Nil
    THEN LET i == CHOOSE k \in TidIdx :
                     q[k] = Nil /\ \A j \in TidIdx : j < k => q[j] # Nil
         IN [q EXCEPT ![i] = tid]
    ELSE q

MutexFreeAlways(l) == TRUE
\* The test "if (!m->locked)" that guards "m->locked = true".
MutexFree(l) == ~l

WakeupNever(tid) == FALSE
\* wakeup(tid): succeeds (returns 0) iff the target is suspended in sleep().
WakeupOk(tid) == msleeping[tid]

MRunnable(t) == ~msleeping[t]

\* A thread calls nanvix_mutex_lock(m).
MutexLockCall(t) ==
    /\ MutexFrame
    /\ mpc[t] = "idle" /\ MRunnable(t)
    /\ mleft[t] # 0
    /\ mleft' = [mleft EXCEPT ![t] = IF @ = Nil THEN Nil ELSE @ - 1]
    /\ mpc' = [mpc EXCEPT ![t] = "lock_spin"]
    /\ UNCHANGED <<sleepMode, locked, mlock, tids, msleeping>>

\* spinlock_lock(&m->lock) in nanvix_mutex_lock.
MutexLockSpin(t) ==
    /\ MutexFrame
    /\ mpc[t] = "lock_spin" /\ MRunnable(t)
    /\ mlock = Nil
    /\ mlock' = t
    /\ mpc' = [mpc EXCEPT ![t] = "lock_cs"]
    /\ UNCHANGED <<mleft, sleepMode, locked, tids, msleeping>>

\* Body of the do-while under the spinlock: dequeue, test-and-set or enqueue,
\* spinlock_unlock.
MutexLockBody(t) ==
    /\ MutexFrame
    /\ mpc[t] = "lock_cs" /\ MRunnable(t)
    /\ mlock = t
    /\ LET q1 == IF sleepMode THEN DequeueTid(tids, t) ELSE tids
       IN IF MutexFree(locked)
          THEN /\ locked' = TRUE
               /\ tids' = q1
               /\ mpc' = [mpc EXCEPT ![t] = "held"]
          ELSE /\ locked' = locked
               /\ tids' = IF sleepMode THEN EnqueueTid(q1, t) ELSE q1
               /\ mpc' = [mpc EXCEPT ![t] =
                            IF sleepMode THEN "lock_sleep" ELSE "lock_spin"]
    /\ mlock' = Nil
    /\ UNCHANGED <<mleft, sleepMode, msleeping>>

\* sleep() at the end of a failed iteration (sleep mode only).
MutexLockSleep(t) ==
    /\ MutexFrame
    /\ mpc[t] = "lock_sleep" /\ MRunnable(t)
    /\ msleeping' = [msleeping EXCEPT ![t] = TRUE]
    /\ mpc' = [mpc EXCEPT ![t] = "lock_spin"]
    /\ UNCHANGED <<mleft, sleepMode, locked, mlock, tids>>

\* The holder calls nanvix_mutex_unlock(m).
MutexUnlockCall(t) ==
    /\ MutexFrame
    /\ mpc[t] = "held" /\ MRunnable(t)
    /\ mpc' = [mpc EXCEPT ![t] = "unlock_spin"]
    /\ UNCHANGED <<mleft, sleepMode, locked, mlock, tids, msleeping>>

\* spinlock_lock(&m->lock) in nanvix_mutex_unlock (label "again").
MutexUnlockSpin(t) ==
    /\ MutexFrame
    /\ mpc[t] = "unlock_spin" /\ MRunnable(t)
    /\ mlock = Nil
    /\ mlock' = t
    /\ mpc' = [mpc EXCEPT ![t] = "unlock_cs"]
    /\ UNCHANGED <<mleft, sleepMode, locked, tids, msleeping>>

\* Body of nanvix_mutex_unlock under the spinlock.
MutexUnlockBody(t) ==
    /\ MutexFrame
    /\ mpc[t] = "unlock_cs" /\ MRunnable(t)
    /\ mlock = t
    /\ IF sleepMode /\ tids[0] # Nil /\ ~WakeupOk(tids[0])
       THEN \* wakeup failed: spinlock_unlock; goto again
            /\ mpc' = [mpc EXCEPT ![t] = "unlock_spin"]
            /\ UNCHANGED <<locked, msleeping>>
       ELSE /\ msleeping' = IF sleepMode /\ tids[0] # Nil
                            THEN [msleeping EXCEPT ![tids[0]] = FALSE]
                            ELSE msleeping
            /\ locked' = FALSE
            /\ mpc' = [mpc EXCEPT ![t] = "idle"]
    /\ mlock' = Nil
    /\ UNCHANGED <<mleft, sleepMode, tids>>

InitMutexVars ==
    /\ sleepMode \in BOOLEAN
    /\ nanvix_mutex_init
    /\ mpc = [t \in MutexThreads |-> "idle"]
    /\ msleeping = [t \in MutexThreads |-> FALSE]
    /\ mleft = [t \in MutexThreads |-> Nil]

\* The mutex as it stands when nobody uses it (other specifications).
MutexUnused ==
    /\ sleepMode = FALSE
    /\ nanvix_mutex_init
    /\ mpc = [t \in MutexThreads |-> "idle"]
    /\ msleeping = [t \in MutexThreads |-> FALSE]
    /\ mleft = [t \in MutexThreads |-> Nil]

\* The sleep-mode build, each thread doing MaxRounds lock/unlock pairs.
InitMutexRounds ==
    /\ sleepMode = TRUE
    /\ nanvix_mutex_init
    /\ mpc = [t \in MutexThreads |-> "idle"]
    /\ msleeping = [t \in MutexThreads |-> FALSE]
    /\ mleft = [t \in MutexThreads |-> MaxRounds]

NextMutex ==
    \E t \in MutexThreads :
        \/ MutexLockCall(t)
        \/ MutexLockSpin(t)
        \/ MutexLockBody(t)
        \/ MutexLockSleep(t)
        \/ MutexUnlockCall(t)
        \/ MutexUnlockSpin(t)
        \/ MutexUnlockBody(t)


(***************************************************************************)
(*                  CONDITION VARIABLES AND THREAD TABLE                   *)
(***************************************************************************)
\* Capacity of the process table processes[PROCESS_MAX]; process 0 is the
\* kernel process.
PROCESS_MAX == 3
\* The pid of the kernel's own process.
KERNEL_PROCESS == 0

Slots == 0..(THREAD_MAX - 1)     \* indices of threads[] and joincond[]
Cores == Slots                   \* the thread in slot i runs on core i
Pids  == 0..(PROCESS_MAX - 1)
TidArgs == 0..MaxTid

\* COND_INITIALIZER
COND_INITIALIZER == [queue |-> Nil, lock |-> Nil]

\* thread_get_coreid(t): the core a thread slot is bound to.
thread_get_coreid(i) == i

\* thread_get_curr(): the slot of the thread running on core c.
thread_get_curr(c) == c

\* process_get_curr(): &processes[thread_get_pid(thread_get_curr())].
process_get_curr(c) == tpid[thread_get_curr(c)]

ThreadAllocSkipLast(tt) ==
    IF \E i \in Slots : i < THREAD_MAX - 1 /\ tt[i].state = "NOT_STARTED"
    THEN CHOOSE i \in Slots :
            /\ i < THREAD_MAX - 1
            /\ tt[i].state = "NOT_STARTED"
            /\ \A j \in Slots : j < i => tt[j].state # "NOT_STARTED"
    ELSE Nil
ThreadAllocNoStateTest(tt) == 1
\* thread_alloc(): index of the first slot in state NOT_STARTED, or NULL.
ThreadAlloc(tt) ==
    IF \E i \in Slots : tt[i].state = "NOT_STARTED"
    THEN CHOOSE i \in Slots :
            /\ tt[i].state = "NOT_STARTED"
            /\ \A j \in Slots : j < i => tt[j].state # "NOT_STARTED"
    ELSE Nil

ThreadFreeKeepState(tt, t) == tt
\* thread_free(t): t->state = THREAD_NOT_STARTED (nthreads-- is in the caller's
\* step).
thread_free(tt, t) == [tt EXCEPT ![t].state = "NOT_STARTED"]

ThreadGetFirstSlot(tt, tid) == 0

\* thread_get(tid): index of the first slot whose tid field equals tid, or NULL
\* (the state of the slot is not looked at).
ThreadGet(tt, tid) ==
    IF \E i \in Slots : tt[i].tid = tid
    THEN CHOOSE i \in Slots :
            /\ tt[i].tid = tid
            /\ \A j \in Slots : j < i => tt[j].tid # tid
    ELSE Nil

\* A core executes only while its process has not been put to sleep.
Runnable(c) == ~psleep[process_get_curr(c)]

\* snap and woke are history of the cond_broadcast in progress: the processes
\* on the queue when cond->lock was taken and the processes woken so far.
\* rv is the retval argument of thread_exit, and in thread_join the content
\* of the location retval points to (Nil: what it held before the call).
NoLocals == [tid |-> Nil, slot |-> Nil, ret |-> "none", cv |-> Nil,
             k |-> "none", snap |-> {}, woke |-> {}, rv |-> Nil]

\* The value the start routine of the thread with id tid returns.
RetvalOf(tid) == tid + 1

NoJoin == [live |-> FALSE, done |-> FALSE]

pmRest == <<threads, nthreads, next_tid, lock_tm, joincond, pnext, psleep,
            tpid, cstart, assigned, exited, jinfo>>

(* ------------------------------ cond.c -------------------------------- *)
RECURSIVE Walk(_, _)
\* The processes met when following next links from p, for at most n links.
Walk(p, n) == IF p = Nil \/ n = 0 THEN {} ELSE {p} \cup Walk(pnext[p], n - 1)

\* The processes on the queue of condition variable k.
QueueOf(k) == Walk(joincond[k].queue, PROCESS_MAX)

\* cond_wait: spinlock_lock(&cond->lock).
CondWaitLock(c) ==
    /\ PmFrame
    /\ pc[c] = "cw_lock" /\ Runnable(c)
    /\ joincond[lcl[c].cv].lock = Nil
    /\ joincond' = [joincond EXCEPT ![lcl[c].cv].lock = c]
    /\ pc' = [pc EXCEPT ![c] = "cw_enq"]
    /\ UNCHANGED <<threads, nthreads, next_tid, lock_tm, pnext, psleep, tpid,
                   lcl, cstart, assigned, exited, jinfo>>

\* cond_wait: curr_process->next = cond->queue; cond->queue = curr_process;
\* spinlock_unlock(&cond->lock).
CondWaitEnqueue(c) ==
    /\ PmFrame
    /\ pc[c] = "cw_enq" /\ Runnable(c)
    /\ joincond[lcl[c].cv].lock = c
    /\ pnext' = [pnext EXCEPT ![process_get_curr(c)] = joincond[lcl[c].cv].queue]
    /\ joincond' = [joincond EXCEPT ![lcl[c].cv] =
                       [queue |-> process_get_curr(c), lock |-> Nil]]
    /\ pc' = [pc EXCEPT ![c] = "cw_sleep"]
    /\ UNCHANGED <<threads, nthreads, next_tid, lock_tm, psleep, tpid,
                   lcl, cstart, assigned, exited, jinfo>>

\* process_sleep(): thread_sleep_all() suspends the calling process.  The lock
\* that cond_wait passes is not a parameter of process_sleep(void): it is
\* neither released nor re-acquired.
process_sleep(c) ==
    /\ PmFrame
    /\ pc[c] = "cw_sleep" /\ Runnable(c)
    /\ psleep' = [psleep EXCEPT ![process_get_curr(c)] = TRUE]
    /\ pc' = [pc EXCEPT ![c] = "cw_wait"]
    /\ UNCHANGED <<threads, nthreads, next_tid, lock_tm, joincond, pnext, tpid,
                   lcl, cstart, assigned, exited, jinfo>>

\* cond_wait returns once the process has been woken up.
CondWaitReturn(c) ==
    /\ PmFrame
    /\ pc[c] = "cw_wait" /\ Runnable(c)
    /\ pc' = [pc EXCEPT ![c] = lcl[c].k]
    /\ UNCHANGED <<pmRest, lcl>>

\* cond_broadcast: spinlock_lock(&cond->lock).
CondBroadcastLock(c) ==
    /\ PmFrame
    /\ pc[c] = "cb_lock" /\ Runnable(c)
    /\ joincond[lcl[c].cv].lock = Nil
    /\ joincond' = [joincond EXCEPT ![lcl[c].cv].lock = c]
    /\ pc' = [pc EXCEPT ![c] = "cb_loop"]
    /\ lcl' = [lcl EXCEPT ![c].snap = QueueOf(lcl[c].cv), ![c].woke = {}]
    /\ UNCHANGED <<threads, nthreads, next_tid, lock_tm, pnext, psleep, tpid,
                   cstart, assigned, exited, jinfo>>

\* process_wakeup(p): thread_wakeup_all(p->pid); no effect on a process that
\* is not asleep.
process_wakeup(ps, p) == [ps EXCEPT ![p] = FALSE]

\* cond_broadcast: loop test; process_wakeup(cond->queue) when the queue is not
\* empty, spinlock_unlock(&cond->lock) and return when it is.
CondBroadcastLoop(c) ==
    /\ PmFrame
    /\ pc[c] = "cb_loop" /\ Runnable(c)
    /\ joincond[lcl[c].cv].lock = c
    /\ IF joincond[lcl[c].cv].queue # Nil
       THEN /\ psleep' = process_wakeup(psleep, joincond[lcl[c].cv].queue)
            /\ pc' = [pc EXCEPT ![c] = "cb_next"]
            /\ lcl' = [lcl EXCEPT
                         ![c].woke = @ \cup {joincond[lcl[c].cv].queue}]
            /\ UNCHANGED joincond
       ELSE /\ joincond' = [joincond EXCEPT ![lcl[c].cv].lock = Nil]
            /\ pc' = [pc EXCEPT ![c] = lcl[c].k]
            /\ lcl' = [lcl EXCEPT ![c].snap = {}, ![c].woke = {}]
            /\ UNCHANGED psleep
    /\ UNCHANGED <<threads, nthreads, next_tid, lock_tm, pnext, tpid,
                   cstart, assigned, exited, jinfo>>

\* cond_broadcast: cond->queue = cond->queue->next.
CondBroadcastNext(c) ==
    /\ PmFrame
    /\ pc[c] = "cb_next" /\ Runnable(c)
    /\ joincond' = [joincond EXCEPT ![lcl[c].cv].queue =
                       pnext[joincond[lcl[c].cv].queue]]
    /\ pc' = [pc EXCEPT ![c] = "cb_loop"]
    /\ UNCHANGED <<threads, nthreads, next_tid, lock_tm, pnext, psleep, tpid,
                   lcl, cstart, assigned, exited, jinfo>>

CondStep(c) ==
    \/ CondWaitLock(c)
    \/ CondWaitEnqueue(c)
    \/ process_sleep(c)
    \/ CondWaitReturn(c)
    \/ CondBroadcastLock(c)
    \/ CondBroadcastLoop(c)
    \/ CondBroadcastNext(c)

(* ----------------------------- thread.c -------------------------------- *)
\* A running thread calls thread_create(&tid, start, arg).
ThreadCreateCall(c) ==
    /\ PmFrame
    /\ pc[c] = "run" /\ Runnable(c)
    /\ next_tid <= MaxTid
    /\ pc' = [pc EXCEPT ![c] = "tc_lock"]
    /\ lcl' = [lcl EXCEPT ![c] = NoLocals]
    /\ UNCHANGED pmRest

\* thread_create: spinlock_lock(&lock_tm).
ThreadCreateLock(c) ==
    /\ PmFrame
    /\ pc[c] = "tc_lock" /\ Runnable(c)
    /\ lock_tm = Nil
    /\ lock_tm' = c
    /\ pc' = [pc EXCEPT ![c] = "tc_alloc"]
    /\ UNCHANGED <<threads, nthreads, next_tid, joincond, pnext, psleep, tpid,
                   lcl, cstart, assigned, exited, jinfo>>

\* thread_create: new_thread = thread_alloc(); spinlock_unlock(&lock_tm);
\* if (new_thread == NULL) return (-EAGAIN).
ThreadCreateAlloc(c) ==
    /\ PmFrame
    /\ pc[c] = "tc_alloc" /\ Runnable(c)
    /\ lock_tm = c
    /\ LET i == ThreadAlloc(threads)
       IN IF i # Nil
          THEN /\ threads' = [threads EXCEPT ![i].state = "STARTED"]
               /\ nthreads' = nthreads + 1
               /\ lcl' = [lcl EXCEPT ![c].slot = i]
               /\ pc' = [pc EXCEPT ![c] = "tc_rd"]
          ELSE /\ lcl' = [lcl EXCEPT ![c].ret = "-EAGAIN"]
               /\ pc' = [pc EXCEPT ![c] = "tc_ret"]
               /\ UNCHANGED <<threads, nthreads>>
    /\ lock_tm' = Nil
    /\ UNCHANGED <<next_tid, joincond, pnext, psleep, tpid, cstart, assigned,
                   exited, jinfo>>

\* thread_create: _tid = next_tid++ (the read of next_tid).
ThreadCreateReadTid(c) ==
    /\ PmFrame
    /\ pc[c] = "tc_rd" /\ Runnable(c)
    /\ lcl' = [lcl EXCEPT ![c].tid = next_tid]
    /\ pc' = [pc EXCEPT ![c] = "tc_inc"]
    /\ UNCHANGED pmRest

\* thread_create: _tid = next_tid++ (the write of next_tid).
ThreadCreateIncTid(c) ==
    /\ PmFrame
    /\ pc[c] = "tc_inc" /\ Runnable(c)
    /\ next_tid' = lcl[c].tid + 1
    /\ pc' = [pc EXCEPT ![c] = "tc_tid"]
    /\ UNCHANGED <<threads, nthreads, lock_tm, joincond, pnext, psleep, tpid,
                   lcl, cstart, assigned, exited, jinfo>>

\* thread_create: new_thread->tid = _tid.
ThreadCreateSetTid(c) ==
    /\ PmFrame
    /\ pc[c] = "tc_tid" /\ Runnable(c)
    /\ threads' = [threads EXCEPT ![lcl[c].slot].tid = lcl[c].tid]
    /\ assigned' = assigned \cup {lcl[c].tid}
    /\ pc' = [pc EXCEPT ![c] = "tc_state"]
    /\ UNCHANGED <<nthreads, next_tid, lock_tm, joincond, pnext, psleep, tpid,
                   lcl, cstart, exited, jinfo>>

\* thread_create: new_thread->state = THREAD_RUNNING (and arg, start, next).
ThreadCreateSetState(c) ==
    /\ PmFrame
    /\ pc[c] = "tc_state" /\ Runnable(c)
    /\ threads' = [threads EXCEPT ![lcl[c].slot].state = "RUNNING"]
    /\ pc' = [pc EXCEPT ![c] = "tc_start"]
    /\ UNCHANGED <<nthreads, next_tid, lock_tm, joincond, pnext, psleep, tpid,
                   lcl, cstart, assigned, exited, jinfo>>

\* thread_create: *tid = _tid; core_start(thread_get_coreid(new_thread),
\* thread_start); return (0).  core_start makes the core run the thread's
\* start routine; a request that finds the core still busy is served at its
\* reset.
ThreadCreateStart(c) ==
    /\ PmFrame
    /\ pc[c] = "tc_start" /\ Runnable(c)
    /\ LET i == thread_get_coreid(lcl[c].slot)
       IN IF pc[i] = "off"
          THEN /\ pc' = [pc EXCEPT ![i] = "run", ![c] = "run"]
               /\ UNCHANGED cstart
          ELSE /\ cstart' = [cstart EXCEPT ![i] = TRUE]
               /\ pc' = [pc EXCEPT ![c] = "run"]
    /\ lcl' = [lcl EXCEPT ![c] = NoLocals]
    /\ UNCHANGED <<threads, nthreads, next_tid, lock_tm, joincond, pnext,
                   psleep, tpid, assigned, exited, jinfo>>

\* thread_create has returned -EAGAIN to its caller.
ThreadCreateFailed(c) ==
    /\ PmFrame
    /\ pc[c] = "tc_ret" /\ Runnable(c)
    /\ lcl' = [lcl EXCEPT ![c] = NoLocals]
    /\ pc' = [pc EXCEPT ![c] = "run"]
    /\ UNCHANGED pmRest

\* The start routine of a created thread returns: thread_start calls
\* thread_exit(retval).  (The master thread of core 0 does not exit.)
ThreadExitCall(c) ==
    /\ PmFrame
    /\ pc[c] = "run" /\ Runnable(c)
    /\ c # 0
    /\ pc' = [pc EXCEPT ![c] = "te_lock"]
    /\ lcl' = [lcl EXCEPT ![c] =
                 [NoLocals EXCEPT !.rv = RetvalOf(threads[thread_get_curr(c)].tid)]]
    /\ UNCHANGED pmRest

\* thread_exit: spinlock_lock(&lock_tm).
ThreadExitLock(c) ==
    /\ PmFrame
    /\ pc[c] = "te_lock" /\ Runnable(c)
    /\ lock_tm = Nil
    /\ lock_tm' = c
    /\ pc' = [pc EXCEPT ![c] = "te_term"]
    /\ UNCHANGED <<threads, nthreads, next_tid, joincond, pnext, psleep, tpid,
                   lcl, cstart, assigned, exited, jinfo>>

\* thread_exit: curr_thread->state = THREAD_TERMINATED, then the call of
\* cond_broadcast(&joincond[thread_get_coreid(curr_thread)]).
ThreadExitTerminate(c) ==
    /\ PmFrame
    /\ pc[c] = "te_term" /\ Runnable(c)
    /\ threads' = [threads EXCEPT ![thread_get_curr(c)].state = "TERMINATED"]
    /\ lcl' = [lcl EXCEPT ![c].cv = thread_get_coreid(thread_get_curr(c)),
                          ![c].k = "te_free"]
    /\ pc' = [pc EXCEPT ![c] = "cb_lock"]
    /\ UNCHANGED <<nthreads, next_tid, lock_tm, joincond, pnext, psleep, tpid,
                   cstart, assigned, exited, jinfo>>

\* thread_exit: thread_free(curr_thread); spinlock_unlock(&lock_tm).
ThreadExitFree(c) ==
    /\ PmFrame
    /\ pc[c] = "te_free" /\ Runnable(c)
    /\ threads' = thread_free(threads, thread_get_curr(c))
    /\ nthreads' = nthreads - 1
    /\ lock_tm' = Nil
    /\ exited' = exited \cup {threads[thread_get_curr(c)].tid}
    /\ lcl' = [lcl EXCEPT ![c] = NoLocals]
    /\ pc' = [pc EXCEPT ![c] = "te_reset"]
    /\ UNCHANGED <<next_tid, joincond, pnext, psleep, tpid, cstart, assigned,
                   jinfo>>

\* thread_exit: core_reset(); the core goes idle, or serves a pending start.
ThreadExitReset(c) ==
    /\ PmFrame
    /\ pc[c] = "te_reset" /\ Runnable(c)
    /\ pc' = [pc EXCEPT ![c] = IF cstart[c] THEN "run" ELSE "off"]
    /\ cstart' = [cstart EXCEPT ![c] = FALSE]
    /\ UNCHANGED <<threads, nthreads, next_tid, lock_tm, joincond, pnext,
                   psleep, tpid, lcl, assigned, exited, jinfo>>

\* A running thread calls thread_join(tid, &retval).
ThreadJoinCall(c, tid) ==
    /\ PmFrame
    /\ pc[c] = "run" /\ Runnable(c)
    /\ pc' = [pc EXCEPT ![c] = "tj_lock"]
    /\ lcl' = [lcl EXCEPT ![c] = [NoLocals EXCEPT !.tid = tid, !.ret = "-EINVAL"]]
    /\ jinfo' = [jinfo EXCEPT ![c] =
                   [live |-> tid \in assigned /\ tid \notin exited,
                    done |-> tid \in exited]]
    /\ UNCHANGED <<threads, nthreads, next_tid, lock_tm, joincond, pnext,
                   psleep, tpid, cstart, assigned, exited>>

\* thread_join: spinlock_lock(&lock_tm).
ThreadJoinLock(c) ==
    /\ PmFrame
    /\ pc[c] = "tj_lock" /\ Runnable(c)
    /\ lock_tm = Nil
    /\ lock_tm' = c
    /\ pc' = [pc EXCEPT ![c] = "tj_get"]
    /\ UNCHANGED <<threads, nthreads, next_tid, joincond, pnext, psleep, tpid,
                   lcl, cstart, assigned, exited, jinfo>>

\* thread_join: t = thread_get(tid); if found ret = 0 and, when
\* t->state == THREAD_RUNNING, the call of cond_wait(&joincond[...], &lock_tm).
ThreadJoinGet(c) ==
    /\ PmFrame
    /\ pc[c] = "tj_get" /\ Runnable(c)
    /\ LET t == ThreadGet(threads, lcl[c].tid)
       IN IF t = Nil
          THEN /\ pc' = [pc EXCEPT ![c] = "tj_unlock"]
               /\ UNCHANGED lcl
          ELSE IF threads[t].state = "RUNNING"
          THEN /\ lcl' = [lcl EXCEPT ![c].slot = t, ![c].ret = "0",
                                     ![c].cv = thread_get_coreid(t),
                                     ![c].k = "tj_unlock"]
               /\ pc' = [pc EXCEPT ![c] = "cw_lock"]
          ELSE /\ lcl' = [lcl EXCEPT ![c].slot = t, ![c].ret = "0"]
               /\ pc' = [pc EXCEPT ![c] = "tj_unlock"]
    /\ UNCHANGED pmRest

\* thread_join: spinlock_unlock(&lock_tm); return (ret).
ThreadJoinUnlock(c) ==
    /\ PmFrame
    /\ pc[c] = "tj_unlock" /\ Runnable(c)
    /\ lock_tm' = Nil
    /\ lcl' = [lcl EXCEPT ![c] = NoLocals]
    /\ jinfo' = [jinfo EXCEPT ![c] = NoJoin]
    /\ pc' = [pc EXCEPT ![c] = "run"]
    /\ UNCHANGED <<threads, nthreads, next_tid, joincond, pnext, psleep, tpid,
                   cstart, assigned, exited>>

\* The steps of thread_create.
ThreadCreateStep(c) ==
    \/ ThreadCreateCall(c)
    \/ ThreadCreateLock(c)
    \/ ThreadCreateAlloc(c)
    \/ ThreadCreateReadTid(c)
    \/ ThreadCreateIncTid(c)
    \/ ThreadCreateSetTid(c)
    \/ ThreadCreateSetState(c)
    \/ ThreadCreateStart(c)
    \/ ThreadCreateFailed(c)

\* The steps of thread_exit, outside of its call of cond_broadcast.
ThreadExitStep(c) ==
    \/ ThreadExitCall(c)
    \/ ThreadExitLock(c)
    \/ ThreadExitTerminate(c)
    \/ ThreadExitFree(c)
    \/ ThreadExitReset(c)

\* The steps of thread_join, outside of its call of cond_wait.
ThreadJoinStep(c) ==
    \/ \E tid \in TidArgs : ThreadJoinCall(c, tid)
    \/ ThreadJoinLock(c)
    \/ ThreadJoinGet(c)
    \/ ThreadJoinUnlock(c)

ThreadStep(c) == ThreadCreateStep(c) \/ ThreadExitStep(c) \/ ThreadJoinStep(c)

\* The statics of thread.c and process.c before any call.
PmStatics ==
    /\ threads = [i \in Slots |->
                    [state |-> IF i = 0 THEN "RUNNING" ELSE "NOT_STARTED",
                     tid |-> 0]]
    /\ nthreads = 1
    /\ next_tid = 1
    /\ lock_tm = Nil
    /\ joincond = [i \in Slots |-> COND_INITIALIZER]
    /\ pnext = [p \in Pids |-> Nil]
    /\ psleep = [p \in Pids |-> FALSE]
    /\ lcl = [c \in Cores |-> NoLocals]
    /\ cstart = [c \in Cores |-> FALSE]
    /\ assigned = {}
    /\ exited = {}
    /\ jinfo = [c \in Cores |-> NoJoin]

PmUnused ==
    /\ PmStatics
    /\ tpid = [c \in Cores |-> KERNEL_PROCESS]
    /\ pc = [c \in Cores |-> "off"]

(* ------------------- cond_wait / cond_broadcast callers ---------------- *)
\* A kernel path that holds a spinlock and waits on a condition variable:
\* spinlock_lock(lock); cond_wait(cond, lock); spinlock_unlock(lock).
CondUserWaitCall(c, k) ==
    /\ PmFrame
    /\ pc[c] = "run" /\ Runnable(c)
    /\ lcl' = [lcl EXCEPT ![c] = [NoLocals EXCEPT !.cv = k, !.k = "cu_unlock"]]
    /\ pc' = [pc EXCEPT ![c] = "cu_lock"]
    /\ UNCHANGED pmRest

CondUserLock(c) ==
    /\ PmFrame
    /\ pc[c] = "cu_lock" /\ Runnable(c)
    /\ lock_tm = Nil
    /\ lock_tm' = c
    /\ pc' = [pc EXCEPT ![c] = "cw_lock"]
    /\ UNCHANGED <<threads, nthreads, next_tid, joincond, pnext, psleep, tpid,
                   lcl, cstart, assigned, exited, jinfo>>

CondUserUnlock(c) ==
    /\ PmFrame
    /\ pc[c] = "cu_unlock" /\ Runnable(c)
    /\ lock_tm' = Nil
    /\ lcl' = [lcl EXCEPT ![c] = NoLocals]
    /\ pc' = [pc EXCEPT ![c] = "run"]
    /\ UNCHANGED <<threads, nthreads, next_tid, joincond, pnext, psleep, tpid,
                   cstart, assigned, exited, jinfo>>

\* A kernel path that calls cond_broadcast(cond).
CondUserBroadcastCall(c, k) ==
    /\ PmFrame
    /\ pc[c] = "run" /\ Runnable(c)
    /\ lcl' = [lcl EXCEPT ![c] = [NoLocals EXCEPT !.cv = k, !.k = "run"]]
    /\ pc' = [pc EXCEPT ![c] = "cb_lock"]
    /\ UNCHANGED pmRest

CondUserStep(c) ==
    \/ \E k \in Slots : CondUserWaitCall(c, k)
    \/ CondUserLock(c)
    \/ CondUserUnlock(c)
    \/ \E k \in Slots : CondUserBroadcastCall(c, k)

\* A kernel path that waits on condition variable k under that condition
\* variable's own spinlock (one monitor lock per condition variable):
\* spinlock_lock(&l[k]); cond_wait(&cond[k], &l[k]); spinlock_unlock(&l[k]).
\* The lock of k is held by the core that is between the two spinlock calls.
CondMonHeld(k) ==
    \E d \in Cores :
        /\ lcl[d].cv = k /\ lcl[d].k = "cm_unlock"
        /\ pc[d] \in {"cw_lock", "cw_enq", "cw_sleep", "cw_wait", "cm_unlock"}

CondMonWaitCall(c, k) ==
    /\ PmFrame
    /\ pc[c] = "run" /\ Runnable(c)
    /\ lcl' = [lcl EXCEPT ![c] = [NoLocals EXCEPT !.cv = k, !.k = "cm_unlock"]]
    /\ pc' = [pc EXCEPT ![c] = "cm_lock"]
    /\ UNCHANGED pmRest

CondMonLock(c) ==
    /\ PmFrame
    /\ pc[c] = "cm_lock" /\ Runnable(c)
    /\ ~CondMonHeld(lcl[c].cv)
    /\ pc' = [pc EXCEPT ![c] = "cw_lock"]
    /\ UNCHANGED <<pmRest, lcl>>

CondMonUnlock(c) ==
    /\ PmFrame
    /\ pc[c] = "cm_unlock" /\ Runnable(c)
    /\ lcl' = [lcl EXCEPT ![c] = NoLocals]
    /\ pc' = [pc EXCEPT ![c] = "run"]
    /\ UNCHANGED pmRest

CondMonStep(c) ==
    \/ \E k \in Slots : CondMonWaitCall(c, k)
    \/ CondMonLock(c)
    \/ CondMonUnlock(c)
    \/ \E k \in Slots : CondUserBroadcastCall(c, k)

(***************************************************************************)
(*                       KERNEL-CALL DISPATCH BRIDGE                       *)
(***************************************************************************)
\* Concurrent callers of do_kcall.
NKCallers == 2
\* Largest factor of the argument vectors <<a, 2a, 3a, 4a, 5a>>.
MaxArg == 1

KCallers == 1..NKCallers
KArgs    == {[i \in 1..5 |-> a * i] : a \in 0..MaxArg}

\* "int ret = -1" in do_kcall.
RetInit == -1

\* Call numbers with a case in do_kcall's switch that the model exercises, and
\* call numbers with no case (the default path).
FastNrs == {"NR_void0", "NR_void1", "NR_void2", "NR_void3", "NR_void4",
            "NR_void5"}
SlowNrs == {"NR_other1", "NR_other2"}

\* The request fields of the scoreboard, in the order do_kcall writes them.
ScoreFields == <<"kcall_nr", "arg0", "arg1", "arg2", "arg3", "arg4">>

\* The static scoreboard: zero-initialised (call number 0 is written "NR_0"),
\* written by nobody.
ScoreboardInit ==
    [f \in {"kcall_nr", "arg0", "arg1", "arg2", "arg3", "arg4", "ret"} |->
        [val |-> IF f = "kcall_nr" THEN "NR_0" ELSE 0, by |-> <<0, 0>>]]

RECURSIVE SumFirst(_, _)
SumFirst(args, n) == IF n = 0 THEN 0 ELSE SumFirst(args, n - 1) + args[n]

KcallVoidShifted(nr, args) ==
    IF nr = "NR_void0" THEN 0
    ELSE IF nr = "NR_void1" THEN args[2] ELSE SumFirst(args, 5)
\* kcall_void0 .. kcall_void5: 0, arg0, arg0 + arg1, ...
KcallVoid(nr, args) ==
    CASE nr = "NR_void0" -> 0
      [] nr = "NR_void1" -> SumFirst(args, 1)
      [] nr = "NR_void2" -> SumFirst(args, 2)
      [] nr = "NR_void3" -> SumFirst(args, 3)
      [] nr = "NR_void4" -> SumFirst(args, 4)
      [] nr = "NR_void5" -> SumFirst(args, 5)

\* Value do_kcall stores in field number i of the scoreboard.
ScoreValue(req, i) == IF i = 1 THEN req.nr ELSE req.args[i - 1]

kcallRest == <<scoreboard, kernel_semaphore, user_semaphore, kcalls, hpc, hups>>

\* do_kcall with a call number that has a case: the handler's result is
\* returned; the scoreboard and the semaphores are not used.
DoKcallFast(c, nr, args) ==
    /\ KcallFrame
    /\ kpc[c] = "user"
    /\ kreq' = [kreq EXCEPT ![c] = [nr |-> nr, args |-> args, idx |-> 0]]
    /\ kret' = [kret EXCEPT ![c] = [kind |-> "fast", val |-> KcallVoid(nr, args)]]
    /\ UNCHANGED <<kpc, kcallRest>>

SemaphoreUpBinary(s) == 1
\* semaphore_up(s): the count of a counting semaphore goes up by one.
semaphore_up(s) == s + 1

\* do_kcall with a call number that has no case: enters the default branch.
DoKcallSlow(c, nr, args) ==
    /\ KcallFrame
    /\ kpc[c] = "user"
    /\ kcalls[c] < MaxCalls
    /\ kcalls' = [kcalls EXCEPT ![c] = kcalls[c] + 1]
    /\ kreq' = [kreq EXCEPT ![c] = [nr |-> nr, args |-> args, idx |-> 1]]
    /\ kret' = [kret EXCEPT ![c] = [kind |-> "none", val |-> RetInit]]
    /\ kpc' = [kpc EXCEPT ![c] = "write"]
    /\ UNCHANGED <<scoreboard, kernel_semaphore, user_semaphore, hpc, hups>>

\* default: one of scoreboard.kcall_nr = kcall_nr; scoreboard.arg0 = arg0; ...
DoKcallWrite(c) ==
    /\ KcallFrame
    /\ kpc[c] = "write"
    /\ scoreboard' = [scoreboard EXCEPT ![ScoreFields[kreq[c].idx]] =
                         [val |-> ScoreValue(kreq[c], kreq[c].idx),
                          by  |-> <<c, kcalls[c]>>]]
    /\ IF kreq[c].idx < Len(ScoreFields)
       THEN /\ kreq' = [kreq EXCEPT ![c].idx = kreq[c].idx + 1]
            /\ UNCHANGED kpc
       ELSE /\ kpc' = [kpc EXCEPT ![c] = "up"]
            /\ UNCHANGED kreq
    /\ UNCHANGED <<kernel_semaphore, user_semaphore, kret, kcalls, hpc, hups>>

\* default: semaphore_up(kernel_semaphore).
DoKcallUp(c) ==
    /\ KcallFrame
    /\ kpc[c] = "up"
    /\ kernel_semaphore' = semaphore_up(kernel_semaphore)
    /\ kpc' = [kpc EXCEPT ![c] = "down"]
    /\ UNCHANGED <<scoreboard, user_semaphore, kreq, kret, kcalls, hpc, hups>>

\* default: semaphore_down(user_semaphore); break; return (ret).
DoKcallDown(c) ==
    /\ KcallFrame
    /\ kpc[c] = "down"
    /\ user_semaphore > 0
    /\ user_semaphore' = user_semaphore - 1
    /\ kret' = [kret EXCEPT ![c] = [kind |-> "slow", val |-> RetInit]]
    /\ kpc' = [kpc EXCEPT ![c] = "user"]
    /\ UNCHANGED <<scoreboard, kernel_semaphore, kreq, kcalls, hpc, hups>>

\* handle_syscall: semaphore_down(kernel_semaphore).
HandleSyscallDown ==
    /\ KcallFrame
    /\ hpc = "down"
    /\ kernel_semaphore > 0
    /\ kernel_semaphore' = kernel_semaphore - 1
    /\ hpc' = "up"
    /\ UNCHANGED <<scoreboard, user_semaphore, kpc, kreq, kret, kcalls, hups>>

\* handle_syscall: semaphore_up(user_semaphore).
HandleSyscallUp ==
    /\ KcallFrame
    /\ hpc = "up"
    /\ user_semaphore' = semaphore_up(user_semaphore)
    /\ hups' = hups + 1
    /\ hpc' = "down"
    /\ UNCHANGED <<scoreboard, kernel_semaphore, kpc, kreq, kret, kcalls>>

HandlerEntryUp == "up"
\* Where the loop of handle_syscall starts: at semaphore_down(kernel_semaphore).
HandlerEntry == "down"

KcallStatics ==
    /\ scoreboard = ScoreboardInit
    /\ kernel_semaphore = 0
    /\ user_semaphore = 0
    /\ kpc = [c \in KCallers |-> "user"]
    /\ kreq = [c \in KCallers |-> [nr |-> "none", args |-> [i \in 1..5 |-> 0],
                                   idx |-> 0]]
    /\ kret = [c \in KCallers |-> [kind |-> "none", val |-> RetInit]]
    /\ kcalls = [c \in KCallers |-> 0]
    /\ hpc = HandlerEntry
    /\ hups = 0

(***************************************************************************)
(*                           PROCESS TABLE                                 *)
(***************************************************************************)
\* Threads that run in processes and call process_create and process_exit.
PThreads == 0..MaxPThread

\* Executable images handed to process_create: a well-formed ELF file and a
\* malformed one.  NullImage is the image field of a slot that has none.
Images == {"good", "bad"}
NullImage == "NULL"

\* Handle of the root address space, the argument of process_init.
root_vmem == 1
\* Address spaces the memory manager can hold; handles are 1 .. VmemCap
\* (0 is what a zeroed vmem field reads as, VMEM_NULL is Nil).
VmemCap == MaxPid + 2
Vmems == 1..VmemCap

\* A slot of processes[].
ProcessSlot(active, pid, vmem, image, tid) ==
    [active |-> active, pid |-> pid, vmem |-> vmem, image |-> image, tid |-> tid]

\* process_init: every slot inactive with no image, then the kernel's slot
\* gets the root address space and is marked active.
process_init ==
    [i \in Pids |->
        IF i = KERNEL_PROCESS
        THEN ProcessSlot(TRUE, 0, root_vmem, NullImage, 0)
        ELSE ProcessSlot(FALSE, 0, 0, NullImage, 0)]

\* The indices of the active slots.
ActiveSlots(ps) == {i \in Pids : ps[i].active}

\* process_alloc, the scan: the first slot that is not active, Nil if none.
ProcessAllocFindAny(ps) == KERNEL_PROCESS
ProcessAllocFind(ps) ==
    IF \E i \in Pids : ~ps[i].active
    THEN CHOOSE i \in Pids : ~ps[i].active /\ \A j \in Pids : j < i => ps[j].active
    ELSE Nil

\* process_free, the writes to the slot: pid, active and image are cleared.
ProcessFreeSlotKeepActive(ps, i) ==
    [ps EXCEPT ![i].pid = 0, ![i].image = NullImage]
ProcessFreeSlot(ps, i) ==
    [ps EXCEPT ![i].pid = 0, ![i].active = FALSE, ![i].image = NullImage]

\* thread_free_all(pid): every thread owned by process pid is released.
thread_free_all(po, pid) ==
    [u \in PThreads |-> IF po[u] = pid THEN Nil ELSE po[u]]

\* A released thread that is not inside a call stops running.
StopReleased(pp, po) ==
    [u \in PThreads |->
        IF po[u] = Nil /\ pp[u] \in {"idle", "setup"} THEN "free" ELSE pp[u]]

\* elf32_load: the entry point of a well-formed image, 0 for any other.
elf32_load(image) == IF image = "good" THEN "USER_BASE_VIRT" ELSE "0"

\* ++next_pid.
NextPidSame(n) == n
NextPid(n) == n + 1

NoPLocals ==
    [image |-> NullImage, slot |-> Nil, vmem |-> Nil, pid |-> 0, ret |-> 0,
     before |-> {}, res |-> "none"]

\* Positions outside every call into process.c.
PQuiet == {"idle", "setup", "free", "gone"}
\* A thread may enter process.c: the kernel runs and, where calls are made one
\* at a time, no other thread is inside a call.
PCallMayStart(t) ==
    /\ ~ppanic
    /\ pseq => \A u \in PThreads \ {t} : ppc[u] \in PQuiet

\* What the steps of process_create leave alone besides what they name.
procRest == <<plast, poob, ppanic, pseq>>

(* ----------------------------- process_create -------------------------- *)
\* A thread calls process_create(image).
ProcessCreateCall(t, image) ==
    /\ ProcFrame
    /\ ppc[t] = "idle" /\ PCallMayStart(t)
    /\ next_pid < MaxPid
    /\ plcl' = [plcl EXCEPT ![t] = [NoPLocals EXCEPT !.image = image,
                                        !.before = IF pseq THEN ActiveSlots(processes)
                                                   ELSE {}]]
    /\ ppc' = [ppc EXCEPT ![t] = "pc_alloc"]
    /\ UNCHANGED <<processes, next_pid, vmade, vfor, vdead, powner, procRest>>

\* process_alloc: the loop finds the first slot whose active flag is clear;
\* with none, process_create leaves through error0.
ProcessAllocScan(t) ==
    /\ ProcFrame
    /\ ppc[t] = "pc_alloc" /\ ~ppanic
    /\ LET i == ProcessAllocFind(processes) IN
        IF i = Nil
        THEN /\ plcl' = [plcl EXCEPT ![t].ret = -1]
             /\ ppc' = [ppc EXCEPT ![t] = "pc_ret"]
        ELSE /\ plcl' = [plcl EXCEPT ![t].slot = i]
             /\ ppc' = [ppc EXCEPT ![t] = "pc_mark"]
    /\ UNCHANGED <<processes, next_pid, vmade, vfor, vdead, powner, procRest>>

\* process_alloc: the slot found is marked active and returned.
ProcessAllocMark(t) ==
    /\ ProcFrame
    /\ ppc[t] = "pc_mark" /\ ~ppanic
    /\ processes' = [processes EXCEPT ![plcl[t].slot].active = TRUE]
    /\ ppc' = [ppc EXCEPT ![t] = "pc_vmem"]
    /\ UNCHANGED <<next_pid, vmade, vfor, vdead, powner, plcl, procRest>>

\* vmem_create succeeds and returns a new address space.
VmemCreateOk(t) ==
    /\ ProcFrame
    /\ ppc[t] = "pc_vmem" /\ ~ppanic
    /\ vmade < VmemCap
    /\ vmade' = vmade + 1
    /\ vfor' = [vfor EXCEPT ![vmade + 1] = plcl[t].slot]
    /\ plcl' = [plcl EXCEPT ![t].vmem = vmade + 1]
    /\ ppc' = [ppc EXCEPT ![t] = "pc_pid"]
    /\ UNCHANGED <<processes, next_pid, vdead, powner, procRest>>

\* vmem_create returns VMEM_NULL: process_create leaves through error1.
VmemCreateFail(t) ==
    /\ ProcFrame
    /\ ppc[t] = "pc_vmem" /\ ~ppanic
    /\ ppc' = [ppc EXCEPT ![t] = "pc_err1"]
    /\ UNCHANGED <<processes, next_pid, vmade, vfor, vdead, powner, plcl,
                   procRest>>

\* ++next_pid, the read: the static counter is not guarded by any lock.
ProcessCreateNextPid(t) ==
    /\ ProcFrame
    /\ ppc[t] = "pc_pid" /\ ~ppanic
    /\ plcl' = [plcl EXCEPT ![t].pid = NextPid(next_pid)]
    /\ ppc' = [ppc EXCEPT ![t] = "pc_init"]
    /\ UNCHANGED <<processes, next_pid, vmade, vfor, vdead, powner, procRest>>

\* ++next_pid, the write, and the initialisation of the control block.
ProcessCreateInit(t) ==
    /\ ProcFrame
    /\ ppc[t] = "pc_init" /\ ~ppanic
    /\ next_pid' = plcl[t].pid
    /\ processes' = [processes EXCEPT ![plcl[t].slot].pid = plcl[t].pid,
                                      ![plcl[t].slot].image = plcl[t].image,
                                      ![plcl[t].slot].vmem = plcl[t].vmem]
    /\ ppc' = [ppc EXCEPT ![t] = "pc_thread"]
    /\ UNCHANGED <<vmade, vfor, vdead, powner, plcl, procRest>>

\* thread_create(process->pid, true) succeeds: a free thread becomes the main
\* thread of the process and will run do_process_setup.
ProcessCreateThreadOk(t) ==
    /\ ProcFrame
    /\ ppc[t] = "pc_thread" /\ ~ppanic
    /\ \E u \in PThreads :
        /\ powner[u] = Nil /\ ppc[u] = "free"
        /\ \A v \in PThreads : v < u => ~(powner[v] = Nil /\ ppc[v] = "free")
        /\ powner' = [powner EXCEPT ![u] = processes[plcl[t].slot].pid]
        /\ processes' = [processes EXCEPT ![plcl[t].slot].tid = u]
        /\ ppc' = [ppc EXCEPT ![t] = "pc_ctx", ![u] = "setup"]
    /\ UNCHANGED <<next_pid, vmade, vfor, vdead, plcl, procRest>>

\* thread_create fails: process_create leaves through error2.
ProcessCreateThreadFail(t) ==
    /\ ProcFrame
    /\ ppc[t] = "pc_thread" /\ ~ppanic
    /\ processes' = [processes EXCEPT ![plcl[t].slot].tid = -1]
    /\ ppc' = [ppc EXCEPT ![t] = "pc_err2"]
    /\ UNCHANGED <<next_pid, vmade, vfor, vdead, powner, plcl, procRest>>

\* The stack and the context of the main thread are forged and process->pid
\* is the value returned.
ProcessCreateContext(t) ==
    /\ ProcFrame
    /\ ppc[t] = "pc_ctx" /\ ~ppanic
    /\ plcl' = [plcl EXCEPT ![t].ret = processes[plcl[t].slot].pid]
    /\ ppc' = [ppc EXCEPT ![t] = "pc_ret"]
    /\ UNCHANGED <<processes, next_pid, vmade, vfor, vdead, powner, procRest>>

\* error2: vmem_destroy(vmem).
ProcessCreateError2(t) ==
    /\ ProcFrame
    /\ ppc[t] = "pc_err2" /\ ~ppanic
    /\ vdead' = [vdead EXCEPT ![plcl[t].vmem] = @ + 1]
    /\ ppc' = [ppc EXCEPT ![t] = "pc_err1"]
    /\ UNCHANGED <<processes, next_pid, vmade, vfor, powner, plcl, procRest>>

\* process_free(&processes[i]) by thread t, which then stands at position at:
\* the kernel's slot fails the assertion; any other slot is cleared and then
\* thread_free_all is called with the pid the slot holds by then.
process_free(t, i, at) ==
    IF i = KERNEL_PROCESS
    THEN /\ ppanic' = TRUE
         /\ UNCHANGED <<processes, powner, ppc>>
    ELSE LET ps == ProcessFreeSlot(processes, i)
             po == thread_free_all(powner, ps[i].pid) IN
         /\ processes' = ps
         /\ powner' = po
         /\ ppc' = [StopReleased(ppc, po) EXCEPT ![t] = at]
         /\ UNCHANGED ppanic

\* error1: process_free(process); error0: return -1.
ProcessCreateError1(t) ==
    /\ ProcFrame
    /\ ppc[t] = "pc_err1" /\ ~ppanic
    /\ process_free(t, plcl[t].slot, "pc_ret")
    /\ plcl' = [plcl EXCEPT ![t].ret = -1]
    /\ UNCHANGED <<next_pid, vmade, vfor, vdead, plast, poob, pseq>>

\* process_create has returned plcl[t].ret to its caller.
ProcessCreateReturn(t) ==
    /\ ProcFrame
    /\ ppc[t] = "pc_ret" /\ ~ppanic
    /\ plast' = IF pseq /\ plcl[t].ret > 0 THEN plcl[t].ret ELSE plast
    /\ plcl' = [plcl EXCEPT ![t] = NoPLocals]
    /\ ppc' = [ppc EXCEPT ![t] = IF powner[t] = Nil THEN "free" ELSE "idle"]
    /\ UNCHANGED <<processes, next_pid, vmade, vfor, vdead, powner, poob,
                   ppanic, pseq>>

(* ------------------------------ process_exit --------------------------- *)
\* process_get_curr is &processes[pid of the calling thread]; process_free on
\* it; thread_yield, which does not come back.  A pid that is no index of
\* processes[] makes process_free write outside the table.
process_exit(t) ==
    /\ ProcFrame
    /\ ppc[t] = "idle" /\ PCallMayStart(t)
    /\ IF powner[t] \in Pids
       THEN /\ process_free(t, powner[t], "gone")
            /\ UNCHANGED poob
       ELSE LET po == thread_free_all(powner, 0) IN
            /\ poob' = TRUE
            /\ powner' = po
            /\ ppc' = [StopReleased(ppc, po) EXCEPT ![t] = "gone"]
            /\ UNCHANGED <<processes, ppanic>>
    /\ UNCHANGED <<next_pid, vmade, vfor, vdead, plcl, plast, pseq>>

(* ---------------------------- do_process_setup ------------------------- *)
\* The main thread of a new process loads running->image, where running is
\* &processes[pid of the thread], and asserts that the loader returned the
\* user base address.  A pid that is no index of processes[] makes it read
\* outside the table: the assertion may pass or fail.
do_process_setup(u) ==
    /\ ProcFrame
    /\ ppc[u] = "setup" /\ PCallMayStart(u)
    /\ IF powner[u] \in Pids
       THEN /\ UNCHANGED poob
            /\ IF elf32_load(processes[powner[u]].image) = "USER_BASE_VIRT"
               THEN ppc' = [ppc EXCEPT ![u] = "idle"] /\ UNCHANGED ppanic
               ELSE ppanic' = TRUE /\ UNCHANGED ppc
       ELSE /\ poob' = TRUE
            /\ \/ ppc' = [ppc EXCEPT ![u] = "idle"] /\ UNCHANGED ppanic
               \/ ppanic' = TRUE /\ UNCHANGED ppc
    /\ UNCHANGED <<processes, next_pid, vmade, vfor, vdead, powner, plcl,
                   plast, pseq>>

(* ---------------------- process_is_valid / process_get ----------------- *)
\* Pids that callers pass to process_is_valid and process_get.
PidArgs == -1..(PROCESS_MAX + 1)

\* WITHIN(x, a, b): a <= x < b.
WITHIN(x, a, b) == a <= x /\ x < b

\* process_is_valid(pid): -EINVAL outside [0, PROCESS_MAX) and for a slot that
\* is not active, 0 otherwise.
ProcessIsValidInRange(ps, pid) ==
    IF WITHIN(pid, 0, PROCESS_MAX) THEN "0" ELSE "-EINVAL"
process_is_valid(ps, pid) ==
    IF ~WITHIN(pid, 0, PROCESS_MAX) THEN "-EINVAL"
    ELSE IF ~ps[pid].active THEN "-EINVAL"
    ELSE "0"

\* process_get(pid): NULL outside [0, PROCESS_MAX) and for a slot that is not
\* active, otherwise &processes[pid] (given as the index of the slot).
process_get(ps, pid) ==
    IF ~WITHIN(pid, 0, PROCESS_MAX) THEN Nil
    ELSE IF ~ps[pid].active THEN Nil
    ELSE pid

\* A thread calls process_is_valid(pid) and holds its result.
ProcessIsValidCall(t, pid) ==
    /\ ProcFrame
    /\ ppc[t] = "idle" /\ PCallMayStart(t)
    /\ plcl' = [plcl EXCEPT ![t] = [NoPLocals EXCEPT !.pid = pid,
                                        !.res = process_is_valid(processes, pid)]]
    /\ ppc' = [ppc EXCEPT ![t] = "pv_ret"]
    /\ UNCHANGED <<processes, next_pid, vmade, vfor, vdead, powner, procRest>>

\* process_is_valid has returned.
ProcessIsValidReturn(t) ==
    /\ ProcFrame
    /\ ppc[t] = "pv_ret" /\ ~ppanic
    /\ plcl' = [plcl EXCEPT ![t] = NoPLocals]
    /\ ppc' = [ppc EXCEPT ![t] = IF powner[t] = Nil THEN "free" ELSE "idle"]
    /\ UNCHANGED <<processes, next_pid, vmade, vfor, vdead, powner, procRest>>

ProcessCreateStep(t) ==
    \/ \E image \in Images : ProcessCreateCall(t, image)
    \/ ProcessAllocScan(t)
    \/ ProcessAllocMark(t)
    \/ VmemCreateOk(t)
    \/ VmemCreateFail(t)
    \/ ProcessCreateNextPid(t)
    \/ ProcessCreateInit(t)
    \/ ProcessCreateThreadOk(t)
    \/ ProcessCreateThreadFail(t)
    \/ ProcessCreateContext(t)
    \/ ProcessCreateError2(t)
    \/ ProcessCreateError1(t)
    \/ ProcessCreateReturn(t)

\* The process table after process_init, the kernel's thread running.
ProcStatics ==
    /\ processes = process_init
    /\ next_pid = 0
    /\ vmade = root_vmem
    /\ vfor = [h \in Vmems |-> IF h = root_vmem THEN KERNEL_PROCESS ELSE Nil]
    /\ vdead = [h \in Vmems |-> 0]
    /\ powner = [u \in PThreads |-> IF u = 0 THEN KERNEL_PROCESS ELSE Nil]
    /\ ppc = [u \in PThreads |-> IF u = 0 THEN "idle" ELSE "free"]
    /\ plcl = [u \in PThreads |-> NoPLocals]
    /\ plast = 0
    /\ poob = FALSE
    /\ ppanic = FALSE

ProcUnused == ProcStatics /\ pseq = TRUE

(***************************************************************************)
(*                            EXCEPTIONS                                   *)
(***************************************************************************)
\* Number of exceptions of the target; valid numbers are 0..EXCEPTIONS_NUM-1.
EXCEPTIONS_NUM == 2

\* The exception the self-test registers handlers for.
EXCEPTION_PAGE_FAULT == 1

ExcNums == 0..(EXCEPTIONS_NUM - 1)

\* Exception numbers that callers pass: the valid ones, -1, EXCEPTIONS_NUM
\* and EXCEPTIONS_NUM + 1.
ExcArgs == -1..(EXCEPTIONS_NUM + 1)

\* Handlers that callers pass; NoHandler is the entry of a number that has no
\* handler installed.
ExcHandlers == {"dummy_handler", "other_handler"}
NoHandler == "NULL"

ExceptionRegisterOverwrite(hs, n, h) ==
    IF n \notin ExcNums
    THEN [ret |-> "-EINVAL", hs |-> hs]
    ELSE [ret |-> "0", hs |-> [hs EXCEPT ![n] = h]]
\* exception_register(n, h): -EINVAL for an invalid number, -EBUSY when a
\* handler is installed for n, otherwise h is installed and 0 returned.
exception_register(hs, n, h) ==
    IF n \notin ExcNums
    THEN [ret |-> "-EINVAL", hs |-> hs]
    ELSE IF hs[n] # NoHandler
    THEN [ret |-> "-EBUSY", hs |-> hs]
    ELSE [ret |-> "0", hs |-> [hs EXCEPT ![n] = h]]

\* exception_unregister(n): -EINVAL for an invalid number, -ENOENT when no
\* handler is installed for n, otherwise the handler is removed and 0
\* returned.
exception_unregister(hs, n) ==
    IF n \notin ExcNums
    THEN [ret |-> "-EINVAL", hs |-> hs]
    ELSE IF hs[n] = NoHandler
    THEN [ret |-> "-ENOENT", hs |-> hs]
    ELSE [ret |-> "0", hs |-> [hs EXCEPT ![n] = NoHandler]]

NoExcCall == [op |-> "none", nr |-> 0, h |-> NoHandler, ret |-> "none",
              before |-> [n \in ExcNums |-> NoHandler]]

\* The calls test_exception makes, in order, each with the value its KASSERT
\* expects: set and unset, register invalid, unregister invalid, unregister
\* bad, overwrite.
ExceptionTests ==
    << [op |-> "register", nr |-> EXCEPTION_PAGE_FAULT, expect |-> "0"],
       [op |-> "unregister", nr |-> EXCEPTION_PAGE_FAULT, expect |-> "0"],
       [op |-> "register", nr |-> -1, expect |-> "-EINVAL"],
       [op |-> "register", nr |-> EXCEPTIONS_NUM + 1, expect |-> "-EINVAL"],
       [op |-> "unregister", nr |-> -1, expect |-> "-EINVAL"],
       [op |-> "unregister", nr |-> EXCEPTIONS_NUM + 1, expect |-> "-EINVAL"],
       [op |-> "unregister", nr |-> EXCEPTION_PAGE_FAULT, expect |-> "-ENOENT"],
       [op |-> "register", nr |-> EXCEPTION_PAGE_FAULT, expect |-> "0"],
       [op |-> "register", nr |-> EXCEPTION_PAGE_FAULT, expect |-> "-EBUSY"],
       [op |-> "unregister", nr |-> EXCEPTION_PAGE_FAULT, expect |-> "0"] >>

\* The self-test is over (or is not run).
TestsDone == etest > Len(ExceptionTests)

\* The kernel calls exception_register(n, h).
ExceptionRegisterCall(n, h) ==
    /\ ExcFrame
    /\ epc = "idle" /\ TestsDone /\ ~epanic
    /\ LET r == exception_register(ehandlers, n, h) IN
        /\ ehandlers' = r.hs
        /\ elcl' = [op |-> "register", nr |-> n, h |-> h, ret |-> r.ret,
                    before |-> ehandlers]
    /\ epc' = "e_ret"
    /\ UNCHANGED <<etest, epanic>>

\* The kernel calls exception_unregister(n).
ExceptionUnregisterCall(n) ==
    /\ ExcFrame
    /\ epc = "idle" /\ TestsDone /\ ~epanic
    /\ LET r == exception_unregister(ehandlers, n) IN
        /\ ehandlers' = r.hs
        /\ elcl' = [op |-> "unregister", nr |-> n, h |-> NoHandler,
                    ret |-> r.ret, before |-> ehandlers]
    /\ epc' = "e_ret"
    /\ UNCHANGED <<etest, epanic>>

\* The caller has received the result.
ExceptionReturn ==
    /\ ExcFrame
    /\ epc = "e_ret" /\ ~epanic
    /\ epc' = "idle"
    /\ elcl' = NoExcCall
    /\ UNCHANGED <<ehandlers, etest, epanic>>

\* test_exception: the next call of the self-test, with dummy_handler, and its
\* KASSERT on the value returned.
TestExceptionStep ==
    /\ ExcFrame
    /\ epc = "idle" /\ ~TestsDone /\ ~epanic
    /\ LET s == ExceptionTests[etest]
           r == IF s.op = "register"
                THEN exception_register(ehandlers, s.nr, "dummy_handler")
                ELSE exception_unregister(ehandlers, s.nr) IN
        /\ ehandlers' = r.hs
        /\ elcl' = [op |-> s.op, nr |-> s.nr,
                    h |-> IF s.op = "register" THEN "dummy_handler"
                          ELSE NoHandler,
                    ret |-> r.ret, before |-> ehandlers]
        /\ epanic' = (r.ret # s.expect)
    /\ etest' = etest + 1
    /\ epc' = "e_ret"

\* The table of handlers at boot, the self-test not yet run.
ExcStatics ==
    /\ ehandlers = [n \in ExcNums |-> NoHandler]
    /\ epc = "idle"
    /\ elcl = NoExcCall
    /\ epanic = FALSE

ExcUnused == ExcStatics /\ etest = 1

(***************************************************************************)
(*                     kernel/noc/mailbox.c : mailboxes                    *)
(***************************************************************************)
\* Sizes of the tables.
PROCESSOR_NOC_NODES_NUM == 2
MAILBOX_PORT_NR == 2
KMAILBOX_MESSAGE_BUFFERS_MAX == 2
HW_MAILBOX_MAX == 1 + PROCESSOR_NOC_NODES_NUM
KMAILBOX_MAX == HW_MAILBOX_MAX * MAILBOX_PORT_NR
\* Number of messages written in one behaviour.
MaxMsgs == 3

NocNodes == 0 .. PROCESSOR_NOC_NODES_NUM - 1
MbxPorts == 0 .. MAILBOX_PORT_NR - 1
MbxIds   == 0 .. KMAILBOX_MAX - 1
HwIds    == 0 .. HW_MAILBOX_MAX - 1
BufIds   == 0 .. KMAILBOX_MESSAGE_BUFFERS_MAX - 1

\* processor_node_get_num(): the node this kernel runs on.
LocalNode == 0
node_is_local(n) == n = LocalNode

DO_LADDRESS_COMPOSE(mbxid, port) == mbxid * MAILBOX_PORT_NR + port
GET_LADDRESS_FD(vmbxid) == vmbxid \div MAILBOX_PORT_NR
GET_LADDRESS_PORT(vmbxid) == vmbxid % MAILBOX_PORT_NR

\* The logic addresses of the local node: the destinations a message that
\* arrives at this node can carry.
LocalAddrs == {DO_LADDRESS_COMPOSE(LocalNode, p) : p \in MbxPorts}

\* Table entries as their initializers leave them.
FreeMbuffer == [used |-> FALSE, busy |-> FALSE, dest |-> -1, data |-> 0]
FreeVmailbox == [used |-> FALSE, busy |-> FALSE, finished |-> FALSE,
                 remote |-> -1]
FreePort == [used |-> FALSE, mbufferid |-> -1]
FreeMailbox == [used |-> FALSE, mode |-> "none", async |-> FALSE,
                refcount |-> 0, nodenum |-> -1,
                ports |-> [p \in MbxPorts |-> FreePort]]

VmailboxNeverUsed(vm, vmbxid) == FALSE
VMAILBOX_IS_USED(vm, vmbxid) == vm[vmbxid].used

\* The lowest index of a set of indices, -1 for the empty set.
FirstOf(S) == IF S = {} THEN -1 ELSE CHOOSE i \in S : \A j \in S : i <= j

\* resource_alloc(&mbufferpool): the first buffer that is not in use.
resource_alloc(mb) == FirstOf({i \in BufIds : ~mb[i].used})

\* do_port_alloc(mbxid): the first free port of a HW mailbox.
do_port_alloc(am, mbxid) ==
    IF am[mbxid].refcount = MAILBOX_PORT_NR
    THEN -1
    ELSE FirstOf({p \in MbxPorts : ~am[mbxid].ports[p].used})

\* do_message_search(local_address): the first stored message addressed to
\* local_address.
do_message_search(mb, local_address) ==
    FirstOf({i \in BufIds : mb[i].used /\ mb[i].busy
                               /\ mb[i].dest = local_address})

\* do_mailbox_search(nodenum, type): the first HW mailbox of that direction
\* and node.
do_mailbox_search(am, nodenum, type) ==
    FirstOf({i \in HwIds : /\ am[i].used
                           /\ am[i].mode = type
                           /\ am[i].nodenum = nodenum})

\* do_vmailbox_release_mbuffer(mbxid, keep_msg), as [mb, am] afterwards.
do_vmailbox_release_mbuffer(mb, am, mbxid, keep_msg) ==
    LET fd == GET_LADDRESS_FD(mbxid)
        port == GET_LADDRESS_PORT(mbxid)
        mbufferid == am[fd].ports[port].mbufferid
    IN  [am |-> [am EXCEPT ![fd].ports[port].mbufferid = -1],
         mb |-> IF keep_msg
                THEN [mb EXCEPT ![mbufferid].busy = TRUE]
                ELSE [mb EXCEPT ![mbufferid] = FreeMbuffer]]

\* What the claim about port accounting counts, per HW mailbox.
PortsUsed(am, fd) == Cardinality({p \in MbxPorts : am[fd].ports[p].used})
VmailboxesUsed(vm, fd) ==
    Cardinality({p \in MbxPorts : vm[DO_LADDRESS_COMPOSE(fd, p)].used})
MbxAccount(am, vm) ==
    [fd \in HwIds |-> [refcount |-> am[fd].refcount,
                       ports |-> {p \in MbxPorts : am[fd].ports[p].used},
                       vmbxs |-> {p \in MbxPorts :
                                    vm[DO_LADDRESS_COMPOSE(fd, p)].used}]]

\* The record of a call: its name, what it returned ("ok": a value that is
\* not an error code), and for a call that handed a message to its caller,
\* the message (-1: none) and the address it was read at.
NoMbxCall == [op |-> "none", ret |-> "none", data |-> -1, addr |-> -1]
MbxCall(op, ret) == [op |-> op, ret |-> ret, data |-> -1, addr |-> -1]
MbxRead(op, ret, data, addr) ==
    [op |-> op, ret |-> ret, data |-> data, addr |-> addr]

\* A call that returns without writing anything.
MbxFail(op, e) ==
    /\ mbx' = [mbx EXCEPT !.last = MbxCall(op, e)]
    /\ UNCHANGED <<mbuffers, virtual_mailboxes, active_mailboxes>>

\* do_vmailbox_create(local, port)
DoVmailboxCreate(local, port) ==
    /\ MbxFrame
    /\ LET mbxid == do_mailbox_search(active_mailboxes, local, "rdonly")
           vmbxid == DO_LADDRESS_COMPOSE(mbxid, port)
       IN  IF ~node_is_local(local)
           THEN MbxFail("create", "-EINVAL")
           ELSE IF mbxid < 0
           THEN MbxFail("create", "-EAGAIN")
           ELSE IF VMAILBOX_IS_USED(virtual_mailboxes, vmbxid)
           THEN MbxFail("create", "-EBUSY")
           ELSE /\ virtual_mailboxes' =
                     [virtual_mailboxes EXCEPT ![vmbxid].used = TRUE]
                /\ active_mailboxes' =
                     [active_mailboxes EXCEPT ![mbxid].ports[port].used = TRUE,
                                              ![mbxid].refcount = @ + 1]
                /\ mbx' = [mbx EXCEPT !.last =
                                  MbxCall("create", "ok")]
                /\ UNCHANGED mbuffers

\* do_vmailbox_open(remote, remote_port)
DoVmailboxOpen(remote, remote_port) ==
    /\ MbxFrame
    /\ LET mbxid == do_mailbox_search(active_mailboxes, remote, "wronly")
           port == do_port_alloc(active_mailboxes, mbxid)
           vmbxid == DO_LADDRESS_COMPOSE(mbxid, port)
       IN  IF mbxid < 0
           THEN MbxFail("open", "-EAGAIN")
           ELSE IF port < 0
           THEN MbxFail("open", "-EAGAIN")
           ELSE IF VMAILBOX_IS_USED(virtual_mailboxes, vmbxid)
           THEN MbxFail("open", "-EBUSY")
           ELSE /\ virtual_mailboxes' =
                     [virtual_mailboxes EXCEPT
                        ![vmbxid].used = TRUE,
                        ![vmbxid].remote =
                            DO_LADDRESS_COMPOSE(remote, remote_port)]
                /\ active_mailboxes' =
                     [active_mailboxes EXCEPT ![mbxid].ports[port].used = TRUE,
                                              ![mbxid].refcount = @ + 1]
                /\ mbx' = [mbx EXCEPT !.last =
                                  MbxCall("open", "ok")]
                /\ UNCHANGED mbuffers

\* do_vmailbox_unlink(mbxid)
DoVmailboxUnlink(mbxid) ==
    /\ MbxFrame
    /\ LET fd == GET_LADDRESS_FD(mbxid)
           port == GET_LADDRESS_PORT(mbxid)
           local_hwaddress ==
               DO_LADDRESS_COMPOSE(active_mailboxes[fd].nodenum, port)
       IN  IF ~VMAILBOX_IS_USED(virtual_mailboxes, mbxid)
           THEN MbxFail("unlink", "-EBADF")
           ELSE IF virtual_mailboxes[mbxid].busy
           THEN MbxFail("unlink", "-EBUSY")
           ELSE IF ~active_mailboxes[fd].used
           THEN MbxFail("unlink", "-EBADF")
           ELSE IF active_mailboxes[fd].mode # "rdonly"
           THEN MbxFail("unlink", "-EBADF")
           ELSE IF do_message_search(mbuffers, local_hwaddress) >= 0
           THEN MbxFail("unlink", "-EBUSY")
           ELSE /\ virtual_mailboxes' =
                     [virtual_mailboxes EXCEPT ![mbxid].used = FALSE,
                                              ![mbxid].busy = FALSE,
                                              ![mbxid].finished = FALSE]
                /\ active_mailboxes' =
                     [active_mailboxes EXCEPT ![fd].ports[port].used = FALSE,
                                              ![fd].refcount = @ - 1]
                /\ mbx' = [mbx EXCEPT !.last = MbxCall("unlink", "ok")]
                /\ UNCHANGED mbuffers

\* do_vmailbox_close(mbxid)
DoVmailboxClose(mbxid) ==
    /\ MbxFrame
    /\ LET fd == GET_LADDRESS_FD(mbxid)
           port == GET_LADDRESS_PORT(mbxid)
       IN  IF ~VMAILBOX_IS_USED(virtual_mailboxes, mbxid)
           THEN MbxFail("close", "-EBADF")
           ELSE IF virtual_mailboxes[mbxid].busy
           THEN MbxFail("close", "-EBADF")
           ELSE IF ~active_mailboxes[fd].used
           THEN MbxFail("close", "-EBADF")
           ELSE IF active_mailboxes[fd].mode # "wronly"
           THEN MbxFail("close", "-EBADF")
           ELSE /\ virtual_mailboxes' =
                     [virtual_mailboxes EXCEPT ![mbxid].used = FALSE,
                                              ![mbxid].busy = FALSE,
                                              ![mbxid].finished = FALSE,
                                              ![mbxid].remote = -1]
                /\ active_mailboxes' =
                     [active_mailboxes EXCEPT ![fd].ports[port].used = FALSE,
                                              ![fd].refcount = @ - 1]
                /\ mbx' = [mbx EXCEPT !.last = MbxCall("close", "ok")]
                /\ UNCHANGED mbuffers

\* do_vmailbox_aread(mbxid, buffer, size).  A stored message is handed over
\* at once; otherwise a buffer is allocated and the hardware is asked to
\* read (halOk: mailbox_aread succeeds).
DoVmailboxAread(mbxid, halOk) ==
    /\ MbxFrame
    /\ LET fd == GET_LADDRESS_FD(mbxid)
           port == GET_LADDRESS_PORT(mbxid)
           local_hwaddress ==
               DO_LADDRESS_COMPOSE(active_mailboxes[fd].nodenum, port)
           found == do_message_search(mbuffers, local_hwaddress)
           mbufferid == resource_alloc(mbuffers)
           am1 == [active_mailboxes EXCEPT ![fd].async = TRUE]
       IN  IF ~VMAILBOX_IS_USED(virtual_mailboxes, mbxid)
           THEN MbxFail("aread", "-EBADF")
           ELSE IF virtual_mailboxes[mbxid].busy
           THEN MbxFail("aread", "-EBADF")
           ELSE IF ~active_mailboxes[fd].used
           THEN MbxFail("aread", "-EBADF")
           ELSE IF active_mailboxes[fd].mode # "rdonly"
           THEN MbxFail("aread", "-EBADF")
           ELSE IF found >= 0
           THEN LET am2 == [am1 EXCEPT ![fd].ports[port].mbufferid = found]
                    rel == do_vmailbox_release_mbuffer(mbuffers, am2, mbxid,
                                                       FALSE)
                IN  /\ virtual_mailboxes' =
                         [virtual_mailboxes EXCEPT ![mbxid].busy = TRUE,
                                                  ![mbxid].finished = TRUE]
                    /\ active_mailboxes' = rel.am
                    /\ mbuffers' = rel.mb
                    /\ mbx' = [mbx EXCEPT
                                 !.last = MbxRead("aread", "ok",
                                                  mbuffers[found].data,
                                                  local_hwaddress)]
           ELSE IF mbufferid < 0
           THEN /\ active_mailboxes' = am1
                /\ mbx' = [mbx EXCEPT !.last =
                                  MbxCall("aread", "-EAGAIN")]
                /\ UNCHANGED <<virtual_mailboxes, mbuffers>>
           ELSE LET am2 == [am1 EXCEPT ![fd].ports[port].mbufferid = mbufferid]
                    mb2 == [mbuffers EXCEPT ![mbufferid].used = TRUE]
                    rel == do_vmailbox_release_mbuffer(mb2, am2, mbxid, FALSE)
                IN  IF halOk
                    THEN /\ virtual_mailboxes' =
                              [virtual_mailboxes EXCEPT ![mbxid].busy = TRUE]
                         /\ active_mailboxes' = am2
                         /\ mbuffers' = mb2
                         /\ mbx' = [mbx EXCEPT !.last =
                                      MbxCall("aread", "ok")]
                    ELSE /\ active_mailboxes' = rel.am
                         /\ mbuffers' = rel.mb
                         /\ mbx' = [mbx EXCEPT !.last =
                                      MbxCall("aread", "-EHAL")]
                         /\ UNCHANGED virtual_mailboxes

\* do_vmailbox_awrite(mbxid, buffer, size).  A message for the local node is
\* stored in its buffer; any other is sent by the hardware (halOk:
\* mailbox_awrite succeeds).  Where the messages are told apart (mbx.n is
\* not Nil), the message written is the next of the messages 1, 2, ...;
\* where they are not, it is the message 1.
DoVmailboxAwrite(mbxid, halOk) ==
    /\ MbxFrame
    /\ mbx.n < MaxMsgs
    /\ LET fd == GET_LADDRESS_FD(mbxid)
           port == GET_LADDRESS_PORT(mbxid)
           msg == IF mbx.n = Nil THEN 1 ELSE mbx.n + 1
           n1 == IF mbx.n = Nil THEN Nil ELSE msg
           kept == active_mailboxes[fd].ports[port].mbufferid
           mbufferid == resource_alloc(mbuffers)
           dest == virtual_mailboxes[mbxid].remote
           am1 == [active_mailboxes EXCEPT
                       ![fd].ports[port].mbufferid = mbufferid,
                       ![fd].async = TRUE]
           mb1 == [mbuffers EXCEPT
                       ![mbufferid] = [used |-> TRUE, busy |-> FALSE,
                                        dest |-> dest, data |-> msg]]
           rel == do_vmailbox_release_mbuffer(mb1, am1, mbxid, TRUE)
           amw == IF kept >= 0 THEN active_mailboxes ELSE am1
           mbw == IF kept >= 0 THEN mbuffers ELSE mb1
       IN  IF ~VMAILBOX_IS_USED(virtual_mailboxes, mbxid)
           THEN MbxFail("awrite", "-EBADF")
           ELSE IF virtual_mailboxes[mbxid].busy
           THEN MbxFail("awrite", "-EBUSY")
           ELSE IF ~active_mailboxes[fd].used
           THEN MbxFail("awrite", "-EBADF")
           ELSE IF active_mailboxes[fd].mode # "wronly"
           THEN MbxFail("awrite", "-EBADF")
           ELSE IF kept < 0 /\ mbufferid < 0
           THEN MbxFail("awrite", "-1")
           ELSE IF kept < 0 /\ node_is_local(active_mailboxes[fd].nodenum)
           THEN /\ virtual_mailboxes' =
                     [virtual_mailboxes EXCEPT ![mbxid].busy = TRUE,
                                              ![mbxid].finished = TRUE]
                /\ active_mailboxes' = rel.am
                /\ mbuffers' = rel.mb
                /\ mbx' = [mbx EXCEPT
                             !.last = MbxCall("awrite", "ok"),
                             !.n = n1]
           ELSE /\ virtual_mailboxes' =
                     [virtual_mailboxes EXCEPT ![mbxid].busy = halOk]
                /\ active_mailboxes' = amw
                /\ mbuffers' = mbw
                /\ mbx' = [mbx EXCEPT
                             !.last = MbxCall("awrite",
                                         IF halOk THEN "ok"
                                                  ELSE "-EHAL"),
                             !.n = n1]

\* do_vmailbox_wait(mbxid), with do_vmailbox_receiver_wait and
\* do_vmailbox_sender_wait.  halOk: mailbox_wait succeeds; arrived: the
\* destination of the message the hardware has received, a message of
\* another node (its data is 0).
DoVmailboxWait(mbxid, halOk, arrived) ==
    /\ MbxFrame
    /\ LET fd == GET_LADDRESS_FD(mbxid)
           port == GET_LADDRESS_PORT(mbxid)
           local_hwaddress ==
               DO_LADDRESS_COMPOSE(active_mailboxes[fd].nodenum, port)
           mbufferid == active_mailboxes[fd].ports[port].mbufferid
           mb1 == [mbuffers EXCEPT ![mbufferid].dest = arrived,
                                   ![mbufferid].data = 0]
           keep == active_mailboxes[fd].ports[GET_LADDRESS_PORT(arrived)].used
           notbusy == [virtual_mailboxes EXCEPT ![mbxid].busy = FALSE]
       IN  IF ~VMAILBOX_IS_USED(virtual_mailboxes, mbxid)
           THEN MbxFail("wait", "-EBADF")
           ELSE IF virtual_mailboxes[mbxid].finished
           THEN /\ virtual_mailboxes' =
                     [virtual_mailboxes EXCEPT ![mbxid].finished = FALSE,
                                              ![mbxid].busy = FALSE]
                /\ mbx' = [mbx EXCEPT !.last = MbxCall("wait", "ok")]
                /\ UNCHANGED <<mbuffers, active_mailboxes>>
           ELSE IF ~virtual_mailboxes[mbxid].busy
           THEN MbxFail("wait", "-EBADF")
           ELSE IF mbufferid < 0 \/ ~active_mailboxes[fd].used
                   \/ ~active_mailboxes[fd].async
           THEN /\ virtual_mailboxes' = notbusy
                /\ mbx' = [mbx EXCEPT !.last =
                                  MbxCall("wait", "-EBADF")]
                /\ UNCHANGED <<mbuffers, active_mailboxes>>
           ELSE IF active_mailboxes[fd].mode = "rdonly"
           THEN IF ~halOk
                THEN LET rel == do_vmailbox_release_mbuffer(
                                    mbuffers, active_mailboxes, mbxid, FALSE)
                     IN  /\ virtual_mailboxes' = notbusy
                         /\ active_mailboxes' = rel.am
                         /\ mbuffers' = rel.mb
                         /\ mbx' = [mbx EXCEPT !.last =
                                      MbxCall("wait", "-EHAL")]
                ELSE IF arrived # local_hwaddress
                THEN LET rel == do_vmailbox_release_mbuffer(
                                    mb1, active_mailboxes, mbxid, keep)
                     IN  /\ virtual_mailboxes' = notbusy
                         /\ active_mailboxes' = rel.am
                         /\ mbuffers' = rel.mb
                         /\ mbx' = [mbx EXCEPT !.last =
                                      MbxCall("wait", "ok")]
                ELSE LET rel == do_vmailbox_release_mbuffer(
                                    mb1, active_mailboxes, mbxid, FALSE)
                     IN  /\ virtual_mailboxes' =
                              notbusy
                         /\ active_mailboxes' = rel.am
                         /\ mbuffers' = rel.mb
                         /\ mbx' = [mbx EXCEPT
                                      !.last = MbxRead("wait", "ok", 0,
                                                       local_hwaddress)]
           ELSE LET rel == do_vmailbox_release_mbuffer(
                               mbuffers, active_mailboxes, mbxid, FALSE)
                IN  /\ virtual_mailboxes' = notbusy
                    /\ active_mailboxes' = rel.am
                    /\ mbuffers' = rel.mb
                    /\ mbx' = [mbx EXCEPT !.last =
                                 MbxCall("wait",
                                         IF halOk THEN "ok"
                                                  ELSE "-EHAL")]

\* kmailbox_init(): every table entry free, then the input mailbox of the
\* local node, then an output mailbox to each node.
MbxStatics ==
    /\ mbuffers = [i \in BufIds |-> FreeMbuffer]
    /\ virtual_mailboxes = [v \in MbxIds |-> FreeVmailbox]
    /\ active_mailboxes =
         [fd \in HwIds |->
            IF fd = 0
            THEN [FreeMailbox EXCEPT !.used = TRUE, !.mode = "rdonly",
                                     !.nodenum = LocalNode]
            ELSE IF fd - 1 \in NocNodes
            THEN [FreeMailbox EXCEPT !.used = TRUE, !.mode = "wronly",
                                     !.nodenum = fd - 1]
            ELSE FreeMailbox]
    /\ mbx \in [last : {NoMbxCall}, n : {Nil, 0}]

MbxUnused == MbxStatics /\ mbx.n = Nil

(***************************************************************************)
(*               kernel/hal/arch/k1b/setup.c : slave cores                 *)
(***************************************************************************)
\* Slave cores, and the number of core_wakeup calls in one behaviour.
K1B_NUM_SLAVES == 2
MaxWakeups == 2

SlaveCores == 1 .. K1B_NUM_SLAVES
\* The start routines handed to core_wakeup, told apart by number; NoStart is
\* the value of cores[].start before the first wakeup.
NoStart == 0
StartRoutines == 1 .. MaxWakeups

\* core_wakeup(coreid, start), first store: cores[coreid].state = CORE_BUSY.
\* The caller is the master core; the routine is the next one not yet used.
CoreWakeupState(coreid) ==
    /\ CoreFrame
    /\ wk.pc = "none"
    /\ wk.issued < MaxWakeups
    /\ cores' = [cores EXCEPT ![coreid].state = "CORE_BUSY"]
    /\ wk' = [wk EXCEPT !.pc = "start", !.coreid = coreid,
                        !.start = wk.issued + 1, !.issued = @ + 1]
    /\ UNCHANGED cpc

\* core_wakeup, second store and the notification:
\* cores[coreid].start = start; bsp_inter_pe_event_notify().
CoreWakeupStart ==
    /\ CoreFrame
    /\ wk.pc = "start"
    /\ cores' = [cores EXCEPT ![wk.coreid].start = wk.start]
    /\ wk' = [wk EXCEPT !.pc = "none"]
    /\ UNCHANGED cpc

\* core_halt() on a slave core: it returns when cores[coreid].state is no
\* longer CORE_IDLE.
CoreHalt(c) ==
    /\ CoreFrame
    /\ cpc[c].at = "core_halt"
    /\ cores[c].state # "CORE_IDLE"
    /\ cpc' = [cpc EXCEPT ![c].at = "core_start"]
    /\ UNCHANGED <<cores, wk>>

\* core_start(), up to the call cores[coreid].start(): the core is set up
\* the first time, then the routine stored is called (a call through the
\* pointer of a core that was never given one is a fault).
CoreStartCall(c) ==
    /\ CoreFrame
    /\ cpc[c].at = "core_start"
    /\ cores' = [cores EXCEPT ![c].initialized = TRUE]
    /\ IF cores[c].start = NoStart
       THEN /\ cpc' = [cpc EXCEPT ![c].at = "fault"]
            /\ UNCHANGED wk
       ELSE /\ cpc' = [cpc EXCEPT ![c].at = "running",
                                  ![c].start = cores[c].start]
            /\ wk' = [wk EXCEPT !.ran[cores[c].start] = @ + 1]

\* The start routine returns into core_start.
CoreStartReturn(c) ==
    /\ CoreFrame
    /\ cpc[c].at = "running"
    /\ cpc' = [cpc EXCEPT ![c].at = "returned"]
    /\ UNCHANGED <<cores, wk>>

\* core_start(), last store: cores[coreid].state = CORE_IDLE; the core goes
\* back to core_halt().
CoreStartIdle(c) ==
    /\ CoreFrame
    /\ cpc[c].at = "returned"
    /\ cores' = [cores EXCEPT ![c].state = "CORE_IDLE"]
    /\ cpc' = [cpc EXCEPT ![c].at = "core_halt", ![c].start = NoStart]
    /\ UNCHANGED wk

\* cores[] as its initializer leaves it, every slave core in core_halt(), no
\* wakeup issued.
CoreStatics ==
    /\ cores = [c \in SlaveCores |->
                  [initialized |-> FALSE, state |-> "CORE_IDLE",
                   start |-> NoStart]]
    /\ cpc = [c \in SlaveCores |-> [at |-> "core_halt", start |-> NoStart]]
    /\ wk = [pc |-> "none", coreid |-> 0, start |-> NoStart, issued |-> 0,
             ran |-> [s \in StartRoutines |-> 0]]

CoreUnused == CoreStatics

(***************************************************************************)
(*                           SPECIFICATIONS                                *)
(***************************************************************************)
\* N threads locking and unlocking one mutex, in spin mode or in sleep mode.
InitMutex == InitMutexVars /\ PmUnused /\ KcallStatics /\ ExcUnused /\ MbxUnused /\ CoreUnused /\ ProcUnused
SpecMutex == InitMutex /\ [][NextMutex]_vars

\* Sleep mode with finitely many lock/unlock pairs under fair scheduling: a
\* thread that can keep running does run, and a thread spinning on m->lock
\* gets it if it is free again and again.
InitMutexFair == InitMutexRounds /\ PmUnused /\ KcallStatics /\ ExcUnused /\ MbxUnused /\ CoreUnused /\ ProcUnused
MutexFairness ==
    \A t \in MutexThreads :
        /\ WF_vars(MutexLockCall(t))
        /\ SF_vars(MutexLockSpin(t))
        /\ WF_vars(MutexLockBody(t))
        /\ WF_vars(MutexLockSleep(t))
        /\ WF_vars(MutexUnlockCall(t))
        /\ SF_vars(MutexUnlockSpin(t))
        /\ WF_vars(MutexUnlockBody(t))
SpecMutexFair == InitMutexFair /\ [][NextMutex]_vars /\ MutexFairness

\* Kernel paths on every core waiting on and broadcasting condition variables.
InitCond ==
    /\ MutexUnused /\ KcallStatics /\ ExcUnused /\ MbxUnused /\ CoreUnused /\ PmStatics /\ ProcUnused
    /\ tpid \in {f \in [Cores -> Pids] : f[0] = KERNEL_PROCESS}
    /\ pc = [c \in Cores |-> "run"]
NextCond == \E c \in Cores : CondStep(c) \/ CondUserStep(c)
SpecCond == InitCond /\ [][NextCond]_vars

\* Kernel paths that wait on condition variables, each condition variable
\* under a spinlock of its own, and broadcast them.
\* Cores 0 and 1 run threads of the kernel's process.
InitCondMon ==
    /\ MutexUnused /\ KcallStatics /\ ExcUnused /\ MbxUnused /\ CoreUnused /\ PmStatics /\ ProcUnused
    /\ tpid \in {f \in [Cores -> Pids] : f[0] = KERNEL_PROCESS
                                           /\ f[1] = KERNEL_PROCESS}
    /\ pc = [c \in Cores |-> "run"]
NextCondMon == \E c \in Cores : CondStep(c) \/ CondMonStep(c)
SpecCondMon == InitCondMon /\ [][NextCondMon]_vars

\* The thread table: the master thread on core 0 and the threads it creates.
InitThread ==
    /\ MutexUnused /\ KcallStatics /\ ExcUnused /\ MbxUnused /\ CoreUnused /\ PmStatics /\ ProcUnused
    /\ tpid \in {f \in [Cores -> Pids] : f[0] = KERNEL_PROCESS}
    /\ pc = [c \in Cores |-> IF c = 0 THEN "run" ELSE "off"]
\* Of cond.c, the return of cond_wait and the advance of the broadcast loop are
\* left out of the next-state relation: no reachable state of this
\* specification enables them (ThreadCondResumeDisabled below), because a
\* joiner sleeps with lock_tm held and thread_exit broadcasts under lock_tm.
NextThread ==
    \E c \in Cores :
        \/ ThreadStep(c)
        \/ CondWaitLock(c)
        \/ CondWaitEnqueue(c)
        \/ process_sleep(c)
        \/ CondBroadcastLock(c)
        \/ CondBroadcastLoop(c)
SpecThread == InitThread /\ [][NextThread]_vars
\* The same, where the system does not stop while some core can take a step.
SpecThreadFair == SpecThread /\ WF_vars(NextThread)

\* CondWaitReturn and CondBroadcastNext are never enabled under SpecThread.
ThreadCondResumeDisabled ==
    \A c \in Cores : ~(pc[c] = "cw_wait" /\ Runnable(c)) /\ pc[c] # "cb_next"

\* The thread table under thread_create and thread_exit alone, every thread in
\* the kernel's process.  No thread waits on a join condition variable, so the
\* broadcast of thread_exit finds its queue empty.
InitTable ==
    /\ MutexUnused /\ KcallStatics /\ ExcUnused /\ MbxUnused /\ CoreUnused /\ PmStatics /\ ProcUnused
    /\ tpid = [c \in Cores |-> KERNEL_PROCESS]
    /\ pc = [c \in Cores |-> IF c = 0 THEN "run" ELSE "off"]
NextTable ==
    \E c \in Cores :
        \/ ThreadCreateStep(c)
        \/ ThreadExitStep(c)
        \/ CondBroadcastLock(c)
        \/ CondBroadcastLoop(c)
SpecTable == InitTable /\ [][NextTable]_vars

\* Callers of do_kcall and the out-of-line handler handle_syscall.
InitKcall == MutexUnused /\ PmUnused /\ KcallStatics /\ ExcUnused /\ MbxUnused /\ CoreUnused /\ ProcUnused
NextKcall ==
    \/ \E c \in KCallers, nr \in FastNrs, args \in KArgs : DoKcallFast(c, nr, args)
    \/ \E c \in KCallers, nr \in SlowNrs, args \in KArgs : DoKcallSlow(c, nr, args)
    \/ \E c \in KCallers : DoKcallWrite(c) \/ DoKcallUp(c) \/ DoKcallDown(c)
    \/ HandleSyscallDown
    \/ HandleSyscallUp
SpecKcall == InitKcall /\ [][NextKcall]_vars

\* Callers that use call numbers of the dispatch table only.
NextKcallFast ==
    \E c \in KCallers, nr \in FastNrs, args \in KArgs : DoKcallFast(c, nr, args)
SpecKcallFast == InitKcall /\ [][NextKcallFast]_vars

\* Callers that use call numbers outside the dispatch table only, and the
\* out-of-line handler.
NextKcallSlow ==
    \/ \E c \in KCallers, nr \in SlowNrs, args \in KArgs : DoKcallSlow(c, nr, args)
    \/ \E c \in KCallers : DoKcallWrite(c) \/ DoKcallUp(c) \/ DoKcallDown(c)
    \/ HandleSyscallDown
    \/ HandleSyscallUp
SpecKcallSlow == InitKcall /\ [][NextKcallSlow]_vars
\* The same, where handle_syscall and every caller inside do_kcall keep
\* running: a step that stays possible is eventually taken.
KcallSlowFairness ==
    /\ WF_vars(HandleSyscallDown)
    /\ WF_vars(HandleSyscallUp)
    /\ \A c \in KCallers :
        WF_vars(DoKcallWrite(c) \/ DoKcallUp(c) \/ DoKcallDown(c))
SpecKcallSlowFair == SpecKcallSlow /\ KcallSlowFairness

\* Processes created and ended one call at a time.
InitProcSeq ==
    /\ MutexUnused /\ PmUnused /\ KcallStatics /\ ExcUnused /\ MbxUnused /\ CoreUnused /\ ProcStatics /\ pseq = TRUE
NextProc ==
    \E t \in PThreads :
        \/ ProcessCreateStep(t)
        \/ process_exit(t)
        \/ do_process_setup(t)
SpecProcSeq == InitProcSeq /\ [][NextProc]_vars

\* The same, with threads that also ask whether a pid is valid.
NextProcValid ==
    \/ NextProc
    \/ \E t \in PThreads, pid \in PidArgs : ProcessIsValidCall(t, pid)
    \/ \E t \in PThreads : ProcessIsValidReturn(t)
SpecProcValid == InitProcSeq /\ [][NextProcValid]_vars

\* The same calls made by threads that run on different cores at once.
InitProc ==
    /\ MutexUnused /\ PmUnused /\ KcallStatics /\ ExcUnused /\ MbxUnused /\ CoreUnused /\ ProcStatics /\ pseq = FALSE
SpecProc == InitProc /\ [][NextProc]_vars

\* The exception interface: a kernel that runs test_exception at boot, or does
\* not, and then registers and unregisters handlers in any order.
InitExc ==
    /\ MutexUnused /\ PmUnused /\ KcallStatics /\ ProcUnused /\ ExcStatics
    /\ MbxUnused /\ CoreUnused
    /\ etest \in {1, Len(ExceptionTests) + 1}
NextExc ==
    \/ \E n \in ExcArgs, h \in ExcHandlers : ExceptionRegisterCall(n, h)
    \/ \E n \in ExcArgs : ExceptionUnregisterCall(n)
    \/ ExceptionReturn
    \/ TestExceptionStep
SpecExc == InitExc /\ [][NextExc]_vars

\* The mailbox interface after kmailbox_init, its calls made one at a time:
\* virtual mailboxes are created, opened, unlinked and closed with any
\* arguments in range, and messages go from the first port of the output
\* mailbox of the local node to the first port of its input mailbox.
InputMbx == 0
LocalOutputMbx == 1 + LocalNode
MsgIds == {DO_LADDRESS_COMPOSE(InputMbx, 0),
           DO_LADDRESS_COMPOSE(LocalOutputMbx, 0)}
InitMbx ==
    /\ MutexUnused /\ PmUnused /\ KcallStatics /\ ExcUnused /\ ProcUnused
    /\ MbxStatics /\ mbx.n = Nil /\ CoreUnused
NextMbx ==
    \/ \E n \in NocNodes, p \in MbxPorts : DoVmailboxCreate(n, p)
    \/ \E n \in NocNodes, p \in MbxPorts : DoVmailboxOpen(n, p)
    \/ \E v \in MbxIds : DoVmailboxUnlink(v)
    \/ \E v \in MbxIds : DoVmailboxClose(v)
    \/ \E v \in MsgIds, ok \in BOOLEAN : DoVmailboxAread(v, ok)
    \/ \E v \in MsgIds : DoVmailboxAwrite(v, TRUE)
    \/ \E v \in MsgIds, ok \in BOOLEAN, a \in LocalAddrs :
           DoVmailboxWait(v, ok, a)
SpecMbx == InitMbx /\ [][NextMbx]_vars

\* One port of the local node, its reader and the writers that have opened
\* it, with the messages written told apart.
OrderIds == {DO_LADDRESS_COMPOSE(InputMbx, 0)}
              \cup {DO_LADDRESS_COMPOSE(LocalOutputMbx, p) : p \in MbxPorts}
InitMbxOrder ==
    /\ MutexUnused /\ PmUnused /\ KcallStatics /\ ExcUnused /\ ProcUnused
    /\ MbxStatics /\ mbx.n = 0 /\ CoreUnused
NextMbxOrder ==
    \/ DoVmailboxCreate(LocalNode, 0)
    \/ DoVmailboxOpen(LocalNode, 0)
    \/ \E v \in OrderIds : DoVmailboxUnlink(v)
    \/ \E v \in OrderIds : DoVmailboxClose(v)
    \/ \E v \in OrderIds, ok \in BOOLEAN : DoVmailboxAread(v, ok)
    \/ \E v \in OrderIds : DoVmailboxAwrite(v, TRUE)
    \/ \E v \in OrderIds, ok \in BOOLEAN, a \in LocalAddrs :
           DoVmailboxWait(v, ok, a)
SpecMbxOrder == InitMbxOrder /\ [][NextMbxOrder]_vars

\* Slave cores that alternate core_halt() and core_start(), and a master core
\* that calls core_wakeup() for any of them at any time.
InitCore ==
    /\ MutexUnused /\ PmUnused /\ KcallStatics /\ ExcUnused /\ ProcUnused
    /\ MbxUnused /\ CoreStatics
NextCore ==
    \/ \E c \in SlaveCores : CoreWakeupState(c)
    \/ CoreWakeupStart
    \/ \E c \in SlaveCores : CoreHalt(c)
    \/ \E c \in SlaveCores : CoreStartCall(c)
    \/ \E c \in SlaveCores : CoreStartReturn(c)
    \/ \E c \in SlaveCores : CoreStartIdle(c)
SpecCore == InitCore /\ [][NextCore]_vars

(***************************************************************************)
(*                              PROPERTIES                                 *)
(***************************************************************************)

(* ------------------------------- mutex -------------------------------- *)
\* A thread is between its return from nanvix_mutex_lock and its call of
\* nanvix_mutex_unlock.
Holds(t) == mpc[t] = "held"

\* C1: mutual exclusion.  In spin mode and in sleep mode, in every
\* interleaving of the threads' lock/unlock pairs, at most one thread is
\* between its return from nanvix_mutex_lock and its call of
\* nanvix_mutex_unlock.
C1_MutualExclusion ==
    \A t, u \in MutexThreads : Holds(t) /\ Holds(u) => t = u

\* C1 witness: in sleep mode one thread holds the mutex while another one,
\* which found it locked, is queued in tids[] and asleep.
C1_Witness ==
    \E t, u \in MutexThreads :
        /\ sleepMode /\ t # u
        /\ Holds(t)
        /\ msleeping[u] /\ \E i \in TidIdx : tids[i] = u

(* ------------------------- condition variables ------------------------ *)
\* Core c is suspended inside cond_wait.
SuspendedInCondWait(c) == pc[c] = "cw_wait" /\ psleep[process_get_curr(c)]

\* C2: no lost wakeup.  Whatever the interleaving of cond_wait and
\* cond_broadcast, a process that is suspended is on the queue of a condition
\* variable, so that the next broadcast wakes it; in particular a broadcast
\* that runs between a waiter's enqueue and its process_sleep does not leave
\* the waiter asleep and off the queue.
C2_NoLostWakeup ==
    \A p \in Pids : psleep[p] => \E k \in Slots : p \in QueueOf(k)

\* C3: monitor semantics.  A caller suspended inside cond_wait(cond, lock)
\* does not hold lock: the thread-table lock is never held by a suspended
\* thread.
C3_LockReleasedWhileSuspended ==
    \A c \in Cores : SuspendedInCondWait(c) => lock_tm # c

(* ----------------------------- thread table --------------------------- *)
\* thread_join on core c is about to return (it has only lock_tm to release).
JoinReturns(c) == pc[c] = "tj_unlock"

\* C4: thread_join(tid), called for a thread whose id was assigned by
\* thread_create and that has not called thread_exit, does not return before
\* that thread's thread_exit has marked it TERMINATED and broadcast.
C4_JoinWaitsForExit ==
    \A c \in Cores :
        JoinReturns(c) /\ jinfo[c].live => lcl[c].tid \in exited

\* C5: thread_join(id), called after the thread with that id has exited,
\* returns 0, whatever thread_create/thread_exit calls followed the exit.
C5_JoinAfterExitSucceeds ==
    \A c \in Cores :
        JoinReturns(c) /\ jinfo[c].done => lcl[c].ret = "0"

\* Core c is inside thread_join for the id of the running thread of slot i.
JoiningOn(c, i) ==
    /\ pc[c] \in {"tj_lock", "tj_get", "cw_lock", "cw_enq", "cw_sleep", "cw_wait"}
    /\ jinfo[c].live
    /\ lcl[c].tid = threads[i].tid
    /\ threads[i].state = "RUNNING"

\* Two threads are inside thread_join on the id of one running thread, and
\* that thread has called thread_exit.
TwoJoinersAtExit ==
    \E a, b, i \in Cores :
        a # b /\ JoiningOn(a, i) /\ JoiningOn(b, i) /\ pc[i] = "te_lock"

\* A thread_join on a thread that was running when it was called returns 0.
JoinerReleased ==
    \E c \in Cores : JoinReturns(c) /\ jinfo[c].live /\ lcl[c].ret = "0"

\* C6: when two threads are in thread_join on the same still-running id and
\* that thread calls thread_exit, the one thread_exit releases the joiners,
\* whether they belong to the same process or not: from then on a thread_join
\* eventually returns 0 (the weakest consequence of "both return 0").
C6_ExitReleasesJoiners == TwoJoinersAtExit ~> JoinerReleased

\* The thread-table slots in use.
Occupied == {i \in Slots : threads[i].state \in {"STARTED", "RUNNING"}}

\* C7: the number of slots in state STARTED or RUNNING never exceeds
\* THREAD_MAX; the scan of thread_create ends in -EAGAIN exactly when no slot
\* is NOT_STARTED; -EAGAIN comes from nowhere else; and no step of a
\* thread_create that fails changes a slot, nthreads, next_tid or a core.
C7_CreateEagain ==
    [][\A c \in Cores :
          /\ Cardinality(Occupied) <= THREAD_MAX
          /\ (pc[c] = "tc_alloc" /\ pc'[c] # "tc_alloc") =>
                /\ (pc'[c] = "tc_ret") <=>
                       (\A i \in Slots : threads[i].state # "NOT_STARTED")
                /\ (pc'[c] = "tc_ret") <=> (lcl'[c].ret = "-EAGAIN")
          /\ (pc'[c] = "tc_ret" /\ pc[c] # "tc_ret") => pc[c] = "tc_alloc"
          /\ (pc[c] # pc'[c] /\ (pc'[c] = "tc_ret" \/ pc[c] = "tc_ret")) =>
                /\ UNCHANGED <<threads, nthreads, next_tid, cstart>>
                /\ \A d \in Cores : d # c => pc'[d] = pc[d]
      ]_vars

\* C7 witness: thread_create returns -EAGAIN with every slot in use.
C7_Witness ==
    \E c \in Cores :
        /\ pc[c] = "tc_ret" /\ lcl[c].ret = "-EAGAIN"
        /\ Cardinality(Occupied) = THREAD_MAX

(* --------------------------- kernel-call bridge ----------------------- *)
\* Slow-path requests written to the scoreboard whose caller has not returned.
Requested == {d \in KCallers : kpc[d] \in {"up", "down"}}

\* Some written request has no completion signalled yet.
ExchangeInFlight == Cardinality(Requested) > user_semaphore

\* C8: at most one slow-path call is in flight.  No do_kcall writes a
\* scoreboard field while a request written earlier by another caller still
\* waits for its completion to be signalled.
C8_OneSlowCallInFlight ==
    [][\A c \in KCallers :
          (kpc[c] = "write" /\ scoreboard' # scoreboard) => ~ExchangeInFlight
      ]_vars

\* C9: a slow-path do_kcall returns the value of the scoreboard's result
\* field.
C9_SlowPathReturnsResult ==
    \A c \in KCallers :
        kret[c].kind = "slow" => kret[c].val = scoreboard["ret"].val

\* C10: whenever the handler has been released by
\* semaphore_down(kernel_semaphore), the call number and the five arguments in
\* the scoreboard were all written by one do_kcall invocation.
C10_ScoreboardConsistent ==
    hpc = "up" =>
        \A i, j \in 1..Len(ScoreFields) :
            scoreboard[ScoreFields[i]].by = scoreboard[ScoreFields[j]].by

RECURSIVE SlowReturnedOf(_)
\* Slow-path calls of the callers in S that have returned.
SlowReturnedOf(S) ==
    IF S = {} THEN 0
    ELSE LET c == CHOOSE x \in S : TRUE
         IN (kcalls[c] - (IF kpc[c] = "user" THEN 0 ELSE 1))
                + SlowReturnedOf(S \ {c})

\* Slow-path calls that have returned to their caller.
SlowReturned == SlowReturnedOf(KCallers)

\* Slow-path calls that have signalled their request (semaphore_up passed).
SlowSignalled ==
    SlowReturned + Cardinality({c \in KCallers : kpc[c] = "down"})

\* C11: a slow-path do_kcall returns only after the handler has consumed a
\* request signal and signalled a completion.  The callers that have returned
\* are as many as the completions signalled minus those still pending in
\* user_semaphore (so never more than the completions, one caller per
\* completion), and the completions are never more than the request signals
\* the handler has consumed.
C11_ReturnAfterCompletion ==
    /\ SlowReturned + user_semaphore = hups
    /\ SlowReturned <= hups
    /\ hups + (IF hpc = "up" THEN 1 ELSE 0) + kernel_semaphore = SlowSignalled

\* C11 witness: two slow-path callers have returned, each after its own
\* completion.
C11_Witness ==
    /\ SlowReturned = 2 /\ hups = 2 /\ user_semaphore = 0

\* The result the dispatch table promises for a call number and arguments.
FastResult(nr, a) ==
    CASE nr = "NR_void0" -> 0
      [] nr = "NR_void1" -> a[1]
      [] nr = "NR_void2" -> a[1] + a[2]
      [] nr = "NR_void3" -> a[1] + a[2] + a[3]
      [] nr = "NR_void4" -> a[1] + a[2] + a[3] + a[4]
      [] nr = "NR_void5" -> a[1] + a[2] + a[3] + a[4] + a[5]

InLock(t) == mpc[t] \in {"lock_spin", "lock_cs", "lock_sleep"}

QueueNonEmpty == \E i \in TidIdx : tids[i] # Nil

\* The threads a step wakes up.
Woken == {t \in MutexThreads : msleeping[t] /\ ~msleeping'[t]}

\* C14: in sleep mode, a step of nanvix_mutex_unlock that clears locked while
\* the waiter queue is non-empty wakes exactly one thread, the one at the
\* head tids[0], and that wakeup succeeded (the thread was asleep); a step
\* that ends in a failed wakeup leaves locked set; and no step wakes a thread
\* other than the head.
C14_UnlockWakesHead ==
    [][sleepMode =>
          /\ (locked /\ ~locked' /\ QueueNonEmpty) =>
                 /\ tids[0] # Nil
                 /\ msleeping[tids[0]]
                 /\ Woken = {tids[0]}
          /\ (\E t \in MutexThreads :
                 mpc[t] = "unlock_cs" /\ mpc'[t] = "unlock_spin") =>
                 /\ locked' = locked
                 /\ Woken = {}
          /\ Woken \subseteq {tids[0]}
      ]_vars

\* C14 witness: the mutex has just been released with a wakeup while a second
\* waiter is still queued and asleep.
C14_Witness ==
    \E t, u \in MutexThreads :
        /\ sleepMode /\ t # u /\ ~locked
        /\ tids[0] = t /\ ~msleeping[t] /\ mpc[t] = "lock_spin"
        /\ tids[1] = u /\ msleeping[u]

\* Thread t leaves process_create through one of its error labels in this
\* step: from the scan that found no slot, or from process_free at error1.
CreateFails(t) ==
    /\ ppc[t] \in {"pc_alloc", "pc_err1"}
    /\ ppc'[t] = "pc_ret"

\* C15: process_create rolls back on every failure.  Calls made one at a time:
\* a call that leaves through an error label returns -1 with the set of active
\* slots equal to the one it found, and with the address space it made, if it
\* made one, destroyed exactly once; that address space is already destroyed
\* when process_free releases the slot; and vmem_destroy is only ever issued,
\* once, by a call whose vmem_create succeeded, on the handle it returned.
C15_CreateRollsBack ==
    [][\A t \in PThreads :
        /\ CreateFails(t) =>
            /\ plcl'[t].ret = -1
            /\ ActiveSlots(processes') = plcl[t].before
            /\ plcl[t].vmem # Nil => vdead'[plcl[t].vmem] = 1
        /\ (ppc[t] = "pc_err1" /\ ppc'[t] = "pc_ret" /\ plcl[t].vmem # Nil) =>
            /\ processes[plcl[t].slot].active
            /\ vdead[plcl[t].vmem] = 1
        /\ (ppc[t] # ppc'[t] /\ vdead' # vdead) =>
            /\ plcl[t].vmem \in Vmems
            /\ vdead[plcl[t].vmem] = 0
            /\ vdead' = [vdead EXCEPT ![plcl[t].vmem] = 1]
      ]_vars
\* A call whose thread creation failed has returned -1: its slot is inactive
\* again and its address space destroyed.
C15_Witness ==
    \E t \in PThreads :
        /\ ppc[t] = "pc_ret" /\ plcl[t].ret = -1
        /\ plcl[t].vmem \in Vmems /\ vdead[plcl[t].vmem] = 1
        /\ ~processes[plcl[t].slot].active
        /\ plcl[t].before # {KERNEL_PROCESS}

\* C16: process_create checks the image.  A call that has returned for a
\* malformed image, one the loader answers 0 for, has returned -1 and left the
\* set of active slots as it found it; a call that has returned anything else
\* than -1 for a well-formed image has returned a positive pid.
C16_CreateChecksImage ==
    \A t \in PThreads :
        ppc[t] = "pc_ret" =>
            /\ elf32_load(plcl[t].image) = "0" =>
                /\ plcl[t].ret = -1
                /\ ActiveSlots(processes) = plcl[t].before
            /\ (elf32_load(plcl[t].image) # "0" /\ plcl[t].ret # -1) =>
                plcl[t].ret > 0

\* The threads a step releases.
Released == {u \in PThreads : powner[u] # Nil /\ powner'[u] = Nil}

\* C17: process_exit and the process_free of a failed process_create release
\* the threads of the process being freed and no others.  A step in which a
\* thread leaves through process_exit releases exactly the threads owned by
\* the caller's process and clears the active flag of the slot that holds the
\* caller's pid; the process_free step of a failed process_create releases
\* exactly the threads owned by the process in the slot being freed and clears
\* that slot's flag; a thread that has left through process_exit stays gone.
C17_FreeReleasesOwnThreads ==
    [][\A t \in PThreads :
        /\ (ppc[t] = "idle" /\ ppc'[t] = "gone") =>
            /\ Released = {u \in PThreads : powner[u] = powner[t]}
            /\ \A i \in Pids :
                (processes[i].active /\ processes[i].pid = powner[t]) =>
                    ~processes'[i].active
        /\ (ppc[t] = "pc_err1" /\ ppc'[t] = "pc_ret") =>
            /\ Released = {u \in PThreads :
                              /\ processes[plcl[t].slot].pid # 0
                              /\ powner[u] = processes[plcl[t].slot].pid}
            /\ ~processes'[plcl[t].slot].active
        /\ ppc[t] = "gone" => ppc'[t] = "gone"
      ]_vars

\* C18: the kernel's slot stays.  In every state processes[KERNEL_PROCESS] is
\* active with pid 0 and the root address space given to process_init, and no
\* call of process_create holds it as the slot process_alloc returned.
C18_KernelSlotStays ==
    /\ processes[KERNEL_PROCESS].active
    /\ processes[KERNEL_PROCESS].pid = KERNEL_PROCESS
    /\ processes[KERNEL_PROCESS].vmem = root_vmem
    /\ \A t \in PThreads : plcl[t].slot # KERNEL_PROCESS
\* A process has left through process_exit and a slot that held a process is
\* inactive again, while another call of process_create holds a slot.
C18_Witness ==
    /\ processes[KERNEL_PROCESS].active
    /\ \E t \in PThreads : ppc[t] = "gone"
    /\ \E i \in Pids : ~processes[i].active /\ processes[i].vmem \in Vmems
    /\ \E t \in PThreads : plcl[t].slot \in Pids

\* C19: an active slot always has its own live address space.  No lock guards
\* processes[], so another core can call process_get or process_is_valid in
\* every state: in every state a slot whose active flag is set holds a handle
\* that vmem_create returned (or the root handle), made for that slot, and
\* not destroyed.
C19_ActiveSlotHasVmem ==
    \A i \in Pids :
        processes[i].active =>
            /\ processes[i].vmem \in 1..vmade
            /\ vfor[processes[i].vmem] = i
            /\ vdead[processes[i].vmem] = 0

\* C20: pids are monotonic and unique.  Calls made one at a time: a
\* process_create that has returned anything but -1 has returned a positive
\* pid larger than the pid of every earlier successful call, and no two
\* active slots hold the same non-zero pid.
C20_PidsIncrease ==
    /\ \A t \in PThreads :
        (ppc[t] = "pc_ret" /\ plcl[t].ret # -1) =>
            /\ plcl[t].ret > 0
            /\ plcl[t].ret > plast
    /\ \A i, j \in Pids :
        (i # j /\ processes[i].active /\ processes[j].active
              /\ processes[i].pid # 0) =>
            processes[i].pid # processes[j].pid
\* A successful call after earlier successful ones, in a slot that is being
\* used again after a process_exit, while another process is active.
C20_Witness ==
    \E t \in PThreads :
        /\ ppc[t] = "pc_ret" /\ plcl[t].ret > plast
        /\ plast >= 1
        /\ plcl[t].slot = 1
        /\ \E i \in Pids : i # plcl[t].slot /\ processes[i].active
                              /\ processes[i].pid # 0

\* C21: process_is_valid(pid) answers 0 exactly for the pids in
\* [0, PROCESS_MAX) whose slot processes[pid] is active and -EINVAL for every
\* other pid, and leaves the process table as it was.
C21_IsValidIffActiveSlot ==
    [][\A t \in PThreads :
        (ppc[t] # "pv_ret" /\ ppc'[t] = "pv_ret") =>
            /\ plcl'[t].res = "0" <=>
                 /\ 0 <= plcl'[t].pid /\ plcl'[t].pid < PROCESS_MAX
                 /\ processes[plcl'[t].pid].active
            /\ plcl'[t].res \in {"0", "-EINVAL"}
            /\ processes' = processes
      ]_vars
\* process_is_valid has answered -EINVAL for the pid of a process that was
\* created and has left, and whose slot is inactive again.
C21_Witness ==
    \E t \in PThreads :
        /\ ppc[t] = "pv_ret" /\ plcl[t].res = "-EINVAL"
        /\ plcl[t].pid \in Pids
        /\ ~processes[plcl[t].pid].active
        /\ processes[plcl[t].pid].vmem \in Vmems

\* Slots that hold a thread being created or running.
LiveSlots(tt) == {i \in Slots : tt[i].state \in {"STARTED", "RUNNING"}}

\* C22: thread ids are unique and handed out in increasing order.  Under any
\* interleaving of thread_create calls, the id a call stores into its slot
\* is larger than every id stored before (so no two calls hand out the same
\* id), and no two slots in state STARTED or RUNNING hold the same tid.
C22_TidsUniqueIncreasing ==
    [][/\ \A c \in Cores :
            (pc[c] = "tc_tid" /\ pc'[c] = "tc_state") =>
                \A x \in assigned : x < lcl[c].tid
       /\ \A i, j \in LiveSlots(threads') :
            i # j => threads'[i].tid # threads'[j].tid
      ]_vars

\* C23: cond_broadcast wakes the whole queue.  Every process_wakeup that
\* cond_broadcast calls is on a process that was on cond->queue when it took
\* cond->lock and that it has not woken before; the step in which
\* cond_broadcast returns finds every such process woken and leaves
\* cond->queue NULL; with an empty queue nobody is woken.
C23_BroadcastWakesQueue ==
    [][\A c \in Cores :
        /\ (pc[c] = "cb_loop" /\ pc'[c] = "cb_next") =>
            /\ joincond[lcl[c].cv].queue \in lcl[c].snap
            /\ joincond[lcl[c].cv].queue \notin lcl[c].woke
        /\ (pc[c] = "cb_loop" /\ pc'[c] \notin {"cb_loop", "cb_next"}) =>
            /\ lcl[c].woke = lcl[c].snap
            /\ joincond'[lcl[c].cv].queue = Nil
      ]_vars

\* C24: return value hand-over.  When thread_join(tid, &r) is about to return
\* 0 for a thread that has terminated through thread_exit(v), r holds v.
C24_JoinReceivesRetval ==
    \A c \in Cores :
        (pc[c] = "tj_unlock" /\ lcl[c].ret = "0" /\ lcl[c].tid \in exited) =>
            lcl[c].rv = RetvalOf(lcl[c].tid)

\* No slot of the thread table holds the id that core c passed to thread_join.
JoinMatchesNoSlot(c) == \A i \in Slots : threads[i].tid # lcl[c].tid

\* C25: thread_join with an id that matches no slot.  The lookup step goes
\* straight to the release of lock_tm with ret = -EINVAL, without calling
\* cond_wait; the return step releases lock_tm, which the caller holds; and
\* neither step changes a slot, a queue or a process's sleep state.
C25_JoinUnknownIdEinval ==
    [][\A c \in Cores :
        /\ (pc[c] = "tj_get" /\ JoinMatchesNoSlot(c) /\ pc'[c] # pc[c]) =>
            /\ pc'[c] = "tj_unlock"
            /\ lcl'[c].ret = "-EINVAL"
            /\ UNCHANGED <<threads, nthreads, joincond, pnext, psleep>>
        /\ (pc[c] = "tj_unlock" /\ lcl[c].ret = "-EINVAL" /\ pc'[c] # pc[c]) =>
            /\ lock_tm = c /\ lock_tm' = Nil
            /\ pc'[c] = "run"
            /\ UNCHANGED <<threads, nthreads, joincond, pnext, psleep>>
      ]_vars
\* thread_join is about to return -EINVAL for an id that no slot holds, while
\* another thread is running.
C25_Witness ==
    \E c \in Cores :
        /\ pc[c] = "tj_unlock" /\ lcl[c].ret = "-EINVAL"
        /\ JoinMatchesNoSlot(c)
        /\ nthreads >= 2

\* The program positions of thread_exit between its spinlock_lock(&lock_tm)
\* and its spinlock_unlock(&lock_tm), the call of cond_broadcast included.
InExitSection(c) ==
    \/ pc[c] \in {"te_term", "te_free"}
    \/ pc[c] \in {"cb_lock", "cb_loop", "cb_next"} /\ lcl[c].k = "te_free"

\* The program positions of a thread that has called thread_exit.
InExit(c) == pc[c] \in {"te_lock", "te_reset"} \/ InExitSection(c)

\* C26: thread_exit marks the slot TERMINATED, then broadcasts the join
\* condition variable of the exiting thread, then releases the slot (state
\* NOT_STARTED, nthreads decremented), all of it with lock_tm held by the
\* exiting core from one acquisition; the core is reset only once lock_tm has
\* been released, and no step takes the thread back to its caller.
C26_ExitOrderUnderLock ==
    [][\A c \in Cores :
        LET t == thread_get_curr(c) IN
        \* one critical section: the lock is held at every position of the
        \* section and is not released in between
        /\ InExitSection(c) => lock_tm = c
        /\ (InExitSection(c) /\ pc'[c] # "te_reset") => lock_tm' = c
        \* first the slot is marked, and the broadcast is called next
        /\ (pc[c] = "te_term" /\ pc'[c] # "te_term") =>
              /\ threads'[t].state = "TERMINATED"
              /\ pc'[c] = "cb_lock"
              /\ lcl'[c].cv = thread_get_coreid(t)
              /\ nthreads' = nthreads
        \* the broadcast runs on a slot already marked and not yet released
        /\ (InExitSection(c) /\ pc[c] \notin {"te_term"}) =>
              threads[t].state = "TERMINATED"
        \* the slot is released only after the broadcast has returned
        /\ (InExit(c) /\ threads[t].state = "TERMINATED"
              /\ threads'[t].state # "TERMINATED") =>
              /\ pc[c] = "te_free"
              /\ threads'[t].state = "NOT_STARTED"
              /\ nthreads' = nthreads - 1
              /\ pc'[c] = "te_reset"
              /\ lock_tm' = Nil
        /\ (pc[c] = "te_free" /\ pc'[c] # "te_free") =>
              threads'[t].state = "NOT_STARTED"
        \* the reset comes after the release of the lock
        /\ pc[c] = "te_reset" => lock_tm # c
        \* thread_exit does not return: the core leaves it only by its reset
        /\ (InExit(c) /\ ~InExit(c)') =>
              /\ pc[c] = "te_reset"
              /\ pc'[c] = IF cstart[c] THEN "run" ELSE "off"
      ]_vars

\* A thread whose exit has gone through the broadcast and the release of its
\* slot is about to reset its core.
C26_Witness ==
    \E c \in Cores :
        /\ pc[c] = "te_reset"
        /\ threads[thread_get_curr(c)].state = "NOT_STARTED"
        /\ threads[thread_get_curr(c)].tid \in exited
        /\ lock_tm # c

\* The changes of state a thread slot goes through: thread_alloc, thread_create,
\* thread_exit, thread_free.
SlotTransitions ==
    {<<"NOT_STARTED", "STARTED">>, <<"STARTED", "RUNNING">>,
     <<"RUNNING", "TERMINATED">>, <<"TERMINATED", "NOT_STARTED">>}

\* C27: whatever the interleaving of thread_create, thread_exit and
\* thread_join, every change of the state of a thread slot is NOT_STARTED to
\* STARTED, STARTED to RUNNING, RUNNING to TERMINATED or TERMINATED to
\* NOT_STARTED.
C27_SlotStateMachine ==
    [][\A i \in Slots :
        threads'[i].state # threads[i].state =>
            <<threads[i].state, threads'[i].state>> \in SlotTransitions
      ]_vars

\* A slot that went through the whole cycle has been allocated again: it is
\* STARTED and still carries the id of the thread that exited from it.
C27_Witness ==
    \E i \in Slots :
        /\ threads[i].state = "STARTED"
        /\ threads[i].tid \in exited
        /\ \E c \in Cores : pc[c] = "tj_unlock"

\* C28: a step that writes a field of a thread-table slot or the id counter
\* next_tid is taken by a core that holds lock_tm.
C28_TableWritesUnderLock ==
    [][(threads' # threads \/ next_tid' # next_tid) =>
          \E c \in Cores : pc'[c] # pc[c] /\ lock_tm = c
      ]_vars

\* Thread t is inside process_create, after process_alloc handed it a slot.
HandedSlot(t) ==
    ppc[t] \in {"pc_vmem", "pc_pid", "pc_init", "pc_thread", "pc_ctx",
                "pc_err2", "pc_err1"}

\* C29: no two process_create calls in progress have been handed the same
\* slot of the process table by process_alloc.
C29_CreatorsHoldDistinctSlots ==
    \A t, u \in PThreads :
        (t # u /\ HandedSlot(t) /\ HandedSlot(u)) => plcl[t].slot # plcl[u].slot

SlowPathStuck ==
    /\ \E c \in KCallers : kpc[c] = "down"
    /\ user_semaphore = 0
    /\ hpc = "down" /\ kernel_semaphore = 0

RECURSIVE WalkSeq(_, _, _)
\* The processes met, in order, when following the links nx from p for at
\* most n links.
WalkSeq(nx, p, n) ==
    IF p = Nil \/ n = 0 THEN <<>> ELSE <<p>> \o WalkSeq(nx, nx[p], n - 1)

\* The queue of condition variable k of table jc, traversed from its head.
QueueSeq(jc, nx, k) == WalkSeq(nx, jc[k].queue, PROCESS_MAX)

\* C32: the queue of a condition variable is in insertion order: a process
\* that calls cond_wait and is not yet on the queue is put behind the waiters
\* already there, so that a traversal from cond.queue (the order in which
\* cond_broadcast wakes) meets the earliest waiter first.
C32_QueueInsertionOrder ==
    [][\A c \in Cores :
        (/\ pc[c] = "cw_enq" /\ pc'[c] = "cw_sleep"
         /\ process_get_curr(c) \notin QueueOf(lcl[c].cv)) =>
            QueueSeq(joincond', pnext', lcl[c].cv) =
                Append(QueueSeq(joincond, pnext, lcl[c].cv), process_get_curr(c))
      ]_vars

\* C35: the queue of every condition variable is a finite list without a
\* cycle in which each process appears at most once.
C35_QueueAcyclic ==
    \A k \in Slots :
        LET q == QueueSeq(joincond, pnext, k) IN
        /\ Len(q) = Cardinality(QueueOf(k))
        /\ Len(q) < PROCESS_MAX \/ pnext[q[PROCESS_MAX]] = Nil

\* C36: a broadcast stays inside the queue it started on: after waking the
\* head it moves on to a process that was on the queue when the broadcast
\* began and that it has not woken yet, or to the end of the queue once it
\* has woken them all.
C36_BroadcastStaysInQueue ==
    [][\A c \in Cores :
        (pc[c] = "cb_next" /\ pc'[c] = "cb_loop") =>
            LET h == joincond'[lcl[c].cv].queue IN
            IF h = Nil THEN lcl[c].woke = lcl[c].snap
            ELSE h \in lcl[c].snap \ lcl[c].woke
      ]_vars

\* A thread is inside nanvix_mutex_unlock.
InUnlock(t) == mpc[t] \in {"unlock_spin", "unlock_cs"}

ReturnedPids ==
    IF \A t \in PThreads : ppc[t] \in PQuiet
    THEN {processes[i].pid : i \in {j \in Pids : processes[j].active
                                                  /\ processes[j].pid > 0}}
    ELSE {}

\* C34: for every pid that a successful process_create returned and whose
\* process has not exited, process_is_valid(pid) returns 0 and
\* process_get(pid) returns the control block whose pid field is pid.
C34_LookupFindsCreatedPid ==
    \A p \in ReturnedPids :
        /\ process_is_valid(processes, p) = "0"
        /\ process_get(processes, p) # Nil
        /\ processes[process_get(processes, p)].pid = p

\* The thread ids stored in tids[], in index order, empty entries left out.
TidSeq(q) == SelectSeq([i \in 1..THREAD_MAX |-> q[i - 1]], LAMBDA x : x # Nil)

\* Sequence s without the entries equal to t.
SeqWithout(s, t) == SelectSeq(s, LAMBDA x : x # t)

\* The waiter queue is well formed: no thread id twice, the entries in use a
\* prefix of tids[], every thread asleep or about to sleep in
\* nanvix_mutex_lock queued, no thread that holds the mutex queued.
TidsWellFormed ==
    /\ \A i, j \in TidIdx : (i # j /\ tids[i] # Nil) => tids[i] # tids[j]
    /\ \A i, j \in TidIdx : (i < j /\ tids[j] # Nil) => tids[i] # Nil
    /\ \A t \in MutexThreads :
        (msleeping[t] \/ mpc[t] = "lock_sleep") => \E i \in TidIdx : tids[i] = t
    /\ \A t \in MutexThreads :
        mpc[t] \in {"held", "unlock_spin", "unlock_cs"} =>
            \A i \in TidIdx : tids[i] # t

\* C37: in sleep mode, whenever the spinlock of the mutex is free, tids[]
\* holds each thread id at most once, its entries in use are a prefix, every
\* thread asleep or about to sleep inside nanvix_mutex_lock is in it and a
\* thread that returned from nanvix_mutex_lock is not; and the prefix is in
\* arrival order: the only step that changes tids[] takes the calling thread
\* out and, when the mutex is taken, puts it back behind all the others.
C37_WaiterQueueInvariant ==
    /\ []((sleepMode /\ mlock = Nil) => TidsWellFormed)
    /\ [][sleepMode =>
            /\ tids' # tids => \E t \in MutexThreads : mpc[t] = "lock_cs"
            /\ \A t \in MutexThreads :
                (mpc[t] = "lock_cs" /\ mpc'[t] # "lock_cs") =>
                    TidSeq(tids') =
                        IF mpc'[t] = "held"
                        THEN SeqWithout(TidSeq(tids), t)
                        ELSE Append(SeqWithout(TidSeq(tids), t), t)
         ]_vars

\* The spinlock is free, one thread holds the mutex and two waiters are
\* queued in the order they arrived: the first one asleep, the second one
\* about to call sleep().
C37_Witness ==
    \E h, t, u \in MutexThreads :
        /\ sleepMode /\ mlock = Nil
        /\ mpc[h] = "held"
        /\ tids[0] = u /\ msleeping[u]
        /\ tids[1] = t /\ mpc[t] = "lock_sleep"
        /\ tids[2] = Nil

(* ------------------------------ mailbox ------------------------------- *)
\* A message written by do_vmailbox_awrite and still stored in mbuffers[]
\* for the local address a.
StoredFor(a) ==
    {mbuffers[i].data : i \in {j \in BufIds : /\ mbuffers[j].used
                                              /\ mbuffers[j].busy
                                              /\ mbuffers[j].dest = a
                                              /\ mbuffers[j].data > 0}}

\* C38: the messages written to one local port are handed to
\* do_vmailbox_aread on that port in the order they were written: when a
\* read returns a message, no message written to the port before it is
\* still stored (messages are numbered in the order they are written).
C38_MessageOrder ==
    (mbx.last.op = "aread" /\ mbx.last.data > 0)
        => \A m \in StoredFor(mbx.last.addr) : m > mbx.last.data

MbxAccountingCalls == {"create", "open", "unlink", "close"}

\* C39: whatever calls of do_vmailbox_create, do_vmailbox_open,
\* do_vmailbox_unlink and do_vmailbox_close have been made, the refcount of
\* every hardware mailbox is the number of its ports flagged used, which is
\* the number of its virtual mailboxes flagged used, and it lies between 0
\* and MAILBOX_PORT_NR; and a call that returns an error code leaves the
\* refcounts and both sets of flags as they were.
C39_PortAccounting ==
    /\ [](\A fd \in HwIds :
           /\ active_mailboxes[fd].refcount = PortsUsed(active_mailboxes, fd)
           /\ PortsUsed(active_mailboxes, fd)
                = VmailboxesUsed(virtual_mailboxes, fd)
           /\ active_mailboxes[fd].refcount \in 0 .. MAILBOX_PORT_NR)
    /\ [][(mbx'.last.op \in MbxAccountingCalls /\ mbx'.last.ret # "ok")
            => MbxAccount(active_mailboxes', virtual_mailboxes')
                 = MbxAccount(active_mailboxes, virtual_mailboxes)]_vars

\* An open has just been refused because every port of the output mailbox is
\* taken, while another mailbox has one port in use.
C39_Witness ==
    /\ mbx.last.op = "open"
    /\ mbx.last.ret = "-EAGAIN"
    /\ \E fd \in HwIds : active_mailboxes[fd].refcount = MAILBOX_PORT_NR
    /\ \E fd \in HwIds : active_mailboxes[fd].refcount = 1

(* ------------------------------ setup.c ------------------------------- *)
\* No core_wakeup is in progress and every slave core is back in core_halt()
\* with nothing to do.
CoresQuiet ==
    /\ wk.pc = "none"
    /\ \A c \in SlaveCores :
         cpc[c].at = "core_halt" /\ cores[c].state = "CORE_IDLE"

\* C40: core start requests are not lost: no start routine handed to
\* core_wakeup is called more than once, and once no wakeup is in progress
\* and every slave core is idle in core_halt(), every routine handed to
\* core_wakeup has been called exactly once.
C40_StartRequestsNotLost ==
    /\ \A s \in StartRoutines : wk.ran[s] <= 1
    /\ CoresQuiet => \A s \in 1 .. wk.issued : wk.ran[s] = 1

====
